---- MODULE Spec2Model ----
(***************************************************************************)
(* Verification model of gluezilla-templater: the DRAM address model, the  *)
(* physical page finder, the bit flipper and the two flip finders with the *)
(* experiment loop.                                                        *)
(*                                                                         *)
(* A 64-bit unsigned word (uint64_t, physaddr_t, virtaddr_t) is the set of *)
(* the positions of its 1-bits, a subset of 0..63. This keeps the width of *)
(* the source: shifts drop the bits that leave the word, addition carries. *)
(***************************************************************************)
EXTENDS Integers, Sequences, FiniteSets, TLC

VARIABLES
  layout,   \* config.dram_layout: [h_fns, row_masks, col_masks], sequences of words
  ub,       \* what the build makes of the undefined shift `1 << n`, n >= 32
  dmode,    \* "phys": DRAMAddr(p).phys()   "triple": DRAMAddr(DRAMAddr(b,r,c).phys())
  din,      \* the input of the translation: [p] or [bank, row, col]
  dmid,     \* the intermediate value: the DRAMAddr of p, or the phys() of the triple
  dout,     \* the result: a word, or a [bank, row, col]
  dpc,      \* "in" before the translation, "out" after it
  mem,      \* PhysPageFinder::mem: the start of the owned virtual region
  pagemap,  \* PhysPageFinder::pagemap: frame number (uint32_t) -> page offset (uint32_t)
  hphys,    \* BitFlipper::phys: HammerAddrs [aggs, victims], physical addresses
  virt_aggs,    \* BitFlipper::virt_aggs
  virt_victims, \* BitFlipper::virt_victims
  found,    \* the value find_pages / find_page returned
  query,    \* find_page called alone: [phys, virt], virt the output argument
  ppc,      \* "call_page" / "call_pages" before the call, "ret_page" / "ret_pages" after
  victim_init,    \* config.victim_init, a sequence of words
  aggressor_init, \* config.aggressor_init, a sequence of words
  ram,      \* the contents of the written pages of the region, by page address:
            \* [fill, diff], the word stored all over the page and the words that differ
  pair_i,   \* BitFlipper::hammer: the loop index i, the number of pairs done
  seen_flip,\* BitFlipper::hammer: seen_flip
  events,   \* the flips the last scan reported: [victim_phys, victim_bit, flips_to]
  bitflips, \* hammer_and_check: bitflips of the last scan
  hret,     \* the value hammer() returned
  hpc,      \* "call" before hammer(), "loop" inside it, "ret" after it
  tested,   \* history: the pairs hammer_and_check was called with, in call order
  differed, \* history: for each call, whether a victim word read back differed
  steps,    \* history: what the current call of hammer() has done so far, in order
  fkind,    \* the flip finder in use: "noncontiguous" or "contiguous"
  iter_algorithm,         \* config.iter_algorithm: "default", "fast" or "debug"
  row_padding,            \* config.row_padding
  hammer_pattern,         \* FlipFinder::hammer_pattern, a sequence of "v" and "a"
  experiment_repetitions, \* config.experiment_repetitions
  target_temps,           \* config.target_temps
  test_max_time,          \* config.test_max_time, in seconds
  config_banks, \* config.banks
  test_first_row, \* config.test_first_row
  test_last_row,  \* config.test_last_row
  missing_rows,   \* NoncontiguousFlipFinder::missing_rows: bank -> set of rows (words)
  first_page,     \* find_flips: first_page
  last_page,      \* find_flips: last_page
  banks,          \* ContiguousFlipFinder::banks: bank -> sequence of page addresses
  pages_per_bank, \* ContiguousFlipFinder::pages_per_bank
  temp_i,   \* experiment_loop: the number of target temperatures done
  rep,      \* repetition_loop: rep
  bank_i,   \* the number of banks done in the loop over the banks
  cur_row,  \* non-contiguous *_test: row, a word
  cur_last_row, \* non-contiguous *_test: last_row, a word
  cur_offset,   \* contiguous *_test: offset
  second,   \* fast_test: TRUE when the next call of hammer is the second of the turn
  fpc,      \* where the finder is
  do_exit,  \* flip_finder.h: do_exit
  handler,  \* TRUE while the SIGINT handler of experiment_loop is installed
  timers,   \* the detached threads of repetition_loop that still sleep
  win,      \* history: the last window hammer() was called for, and what became of it
  sigint,     \* history: "none", or "hammering" / "between" for a SIGINT that arrived
              \* while a window was hammered / at any other time
  later_start, \* history: a repetition or a temperature began after a SIGINT that
               \* arrived while a window was hammered
  target_temperature, \* TemperatureController::target_temperature, -1 before the first
                      \* set_target_temperature
  actual_temperature, \* experiment_loop: the last reading of the wait loop
  elapsed,            \* experiment_loop: steady_clock::now() - start_time, in seconds
  \* the hammer kernels, hammer_aggs_* of bit_flipper.cpp
  hammer_algorithm, \* config.hammer_algorithm
  use_asmjit,       \* the build defines USE_ASMJIT
  clflushopt,       \* the build defines __CLFLUSHOPT__
  hammer_count,     \* config.hammer_count, a word
  nop_count,        \* config.nop_count
  aggressor_rows,   \* config.aggressor_rows
  function,         \* hammer_aggs_machinecode: the instructions of the emitted function
  accesses,         \* hammer_aggs_default: the reads and flushes so far, in order
  iter_i,           \* hammer_aggs_default: i
  iter_pos,         \* hammer_aggs_default: the accesses of the turn i done so far
  turns,            \* history: how often the emitted function ran the block of each
                    \* aggressor, a number given by its bits, {64} for 2^64
  kpc,              \* where the kernel is
  \* config.cpp
  ini,    \* the value of the key hammer_pattern of the ini file, <<>> if absent
  config, \* the fields of Config that read_values and verify_values handle
  cpc     \* where Config::read is

dramVars == <<layout, ub, dmode, din, dmid, dout, dpc>>

pageVars == <<mem, pagemap, hphys, virt_aggs, virt_victims, found, query, ppc>>

flipVars == <<victim_init, aggressor_init, ram, pair_i, seen_flip, events, bitflips,
             hret, hpc, tested, differed, steps>>

cfgVars == <<fkind, iter_algorithm, row_padding, hammer_pattern, experiment_repetitions,
            target_temps, test_max_time, config_banks, test_first_row, test_last_row>>

runVars == <<missing_rows, first_page, last_page, banks, pages_per_bank, temp_i, rep,
            bank_i, cur_row, cur_last_row, cur_offset, second, fpc, do_exit, handler, timers, win,
            sigint, later_start>>

tempVars == <<target_temperature, actual_temperature, elapsed>>

finderVars == <<cfgVars, runVars, tempVars>>

kernelVars == <<hammer_algorithm, use_asmjit, clflushopt, hammer_count, nop_count,
               aggressor_rows, function, accesses, iter_i, iter_pos, turns, kpc>>

configVars == <<ini, config, cpc>>

vars == <<dramVars, pageVars, flipVars, finderVars, kernelVars, configVars>>

\* the values of the variables a specification does not use
IdleDram ==
  /\ layout = [h_fns |-> <<>>, row_masks |-> <<>>, col_masks |-> <<>>]
  /\ ub = "wrap" /\ dmode = "idle" /\ din = {} /\ dmid = {} /\ dout = {} /\ dpc = "idle"

IdlePages ==
  /\ mem = {} /\ pagemap = <<>> /\ hphys = [aggs |-> <<>>, victims |-> <<>>]
  /\ virt_aggs = <<>> /\ virt_victims = <<>> /\ found = FALSE
  /\ query = [phys |-> {}, virt |-> {}] /\ ppc = "idle"

IdleFlip ==
  /\ victim_init = <<>> /\ aggressor_init = <<>> /\ ram = <<>> /\ pair_i = 0
  /\ seen_flip = FALSE /\ events = <<>> /\ bitflips = 0 /\ hret = FALSE
  /\ hpc = "idle" /\ tested = <<>> /\ differed = <<>> /\ steps = <<>>

NoWindow == [outcome |-> "none"]

IdleRun ==
  /\ fkind = "idle" /\ iter_algorithm = "default" /\ row_padding = 0
  /\ hammer_pattern = <<>> /\ experiment_repetitions = 0
  /\ test_max_time = 0 /\ config_banks = <<>>
  /\ test_first_row = 0 /\ test_last_row = 0
  /\ missing_rows = <<>> /\ first_page = 0 /\ last_page = 0
  /\ banks = <<>> /\ pages_per_bank = 0 /\ temp_i = 0 /\ rep = 0 /\ bank_i = 0
  /\ cur_row = {} /\ cur_last_row = {} /\ cur_offset = 0 /\ second = FALSE /\ fpc = "idle"
  /\ do_exit = FALSE /\ handler = FALSE /\ timers = 0 /\ win = NoWindow
  /\ sigint = "none" /\ later_start = FALSE
  /\ actual_temperature = 0 /\ elapsed = 0

IdleFinder == IdleRun /\ target_temps = <<>> /\ target_temperature = -1

IdleKernel ==
  /\ hammer_algorithm = "idle" /\ use_asmjit = FALSE /\ clflushopt = FALSE
  /\ hammer_count = {} /\ nop_count = 0 /\ aggressor_rows = 0
  /\ function = <<>> /\ accesses = <<>> /\ iter_i = 0 /\ iter_pos = 0 /\ turns = <<>>
  /\ kpc = "idle"
  /\ ini = <<>> /\ config = <<>> /\ cpc = "idle"

----------------------------------------------------------------------------
(* Words *)

WordBits == 64
IntBits == 32

BitPos == 0..(WordBits - 1)

And(a, b) == a \cap b
Or(a, b) == a \cup b
Xor(a, b) == (a \ b) \cup (b \ a)
Not(a) == BitPos \ a
Shl(a, n) == {b + n : b \in {x \in a : x + n < WordBits}}
Shr(a, n) == {b - n : b \in {x \in a : x >= n}}

\* a + b on uint64_t: ripple carry, the carry out of bit 63 is dropped
RECURSIVE Add(_, _)
Add(a, b) == IF b = {} THEN a ELSE Add(Xor(a, b), Shl(And(a, b), 1))

\* the number n (0 <= n < 2^31) as a word, and back
RECURSIVE ToWordFrom(_, _)
ToWordFrom(n, k) ==
  IF n = 0 THEN {}
  ELSE (IF n % 2 = 1 THEN {k} ELSE {}) \cup ToWordFrom(n \div 2, k + 1)
ToWord(n) == ToWordFrom(n, 0)

RECURSIVE Pow2(_)
Pow2(n) == IF n = 0 THEN 1 ELSE 2 * Pow2(n - 1)

RECURSIVE ToNat(_)
ToNat(w) ==
  IF w = {} THEN 0
  ELSE LET b == CHOOSE x \in w : TRUE IN Pow2(b) + ToNat(w \ {b})

Min(S) == CHOOSE x \in S : \A y \in S : x <= y
Max(S) == CHOOSE x \in S : \A y \in S : x >= y

\* the int `1 << n` of the source converted to uint64_t (sign extension).
\* n <= 30: the single bit n. n = 31: INT_MIN, bits 31..63 after conversion.
\* n >= 32: undefined; "wrap" is the x86 shift that uses the count modulo 32,
\* "zero" a build that shifts in 64 bits and keeps the low 32.
RECURSIVE IntOneShl(_, _)
IntOneShl(n, u) ==
  IF n < IntBits - 1 THEN {n}
  ELSE IF n = IntBits - 1 THEN (IntBits - 1)..(WordBits - 1)
  ELSE IF u = "wrap" THEN IntOneShl(n % IntBits, u)
  ELSE {}

\* the int `(1 << n) - 1` converted to uint64_t, for n <= 30
IntLowMask(n) == {b \in BitPos : b < n}

----------------------------------------------------------------------------
(* operators.h *)

xor_bits(value, bitmask) == Cardinality(And(value, bitmask)) % 2

count_one_bits(value) == Cardinality(value)

\* undefined for the zero word; the model never applies it to one
count_trailing_zero_bits(value) == Min(value)

----------------------------------------------------------------------------
(* dram_address.cpp *)

\* [res, val]: the n low bits of val, and val shifted right by n
pop_least_significant_bits(val, n) ==
  [res |-> And(val, IntLowMask(n)), val |-> Shr(val, n)]

\* the general path of get_dram_row / get_dram_col: the projections of the
\* masks, concatenated in list order
RECURSIVE ExtractLoop(_, _, _, _, _)
ExtractLoop(p_addr, masks, i, acc, offset) ==
  IF i > Len(masks) THEN acc
  ELSE ExtractLoop(p_addr, masks, i + 1,
                   Add(acc, Shl(Shr(And(p_addr, masks[i]),
                                    count_trailing_zero_bits(masks[i])), offset)),
                   offset + count_one_bits(masks[i]))

ExtractBroken(p_addr, masks) ==
  IF Len(masks) = 1 THEN And(p_addr, masks[1])
  ELSE ExtractLoop(p_addr, masks, 1, {}, 0)

Extract(p_addr, masks) ==
  IF Len(masks) = 1
    THEN Shr(And(p_addr, masks[1]), count_trailing_zero_bits(masks[1]))
    ELSE ExtractLoop(p_addr, masks, 1, {}, 0)

get_dram_row(p_addr) == Extract(p_addr, layout.row_masks)

get_dram_col(p_addr) == Extract(p_addr, layout.col_masks)

BankOfReversed(p_addr) ==
  {Len(layout.h_fns) - 1 - i : i \in {j \in 0..(Len(layout.h_fns) - 1) :
                                        xor_bits(p_addr, layout.h_fns[j + 1]) = 1}}

\* the bank of a physical address: bit i is the parity of p_addr under h_fns[i]
BankOf(p_addr) ==
  {i \in 0..(Len(layout.h_fns) - 1) : xor_bits(p_addr, layout.h_fns[i + 1]) = 1}

\* DRAMAddr::DRAMAddr(const physaddr_t &)
DRAMAddr(p_addr) ==
  [bank |-> BankOf(p_addr), row |-> get_dram_row(p_addr), col |-> get_dram_col(p_addr)]

\* the general path of phys(): the bits of val placed into the masks in list order
RECURSIVE PlaceLoop(_, _, _, _)
PlaceLoop(val, masks, i, acc) ==
  IF i > Len(masks) THEN acc
  ELSE LET n == count_one_bits(masks[i])
           offset == count_trailing_zero_bits(masks[i])
           pop == pop_least_significant_bits(val, n)
       IN PlaceLoop(pop.val, masks, i + 1, Or(acc, Shl(pop.res, offset)))

PlaceUnshifted(val, masks) ==
  IF Len(masks) = 1 THEN val ELSE PlaceLoop(val, masks, 1, {})

Place(val, masks) ==
  IF Len(masks) = 1 THEN Shl(val, count_trailing_zero_bits(masks[1]))
  ELSE PlaceLoop(val, masks, 1, {})

\* std::accumulate(masks.begin(), masks.end(), 0ull)
RECURSIVE Accumulate(_, _)
Accumulate(masks, i) ==
  IF i > Len(masks) THEN {} ELSE Add(masks[i], Accumulate(masks, i + 1))

\* the bits of h_fns[i] outside every row and column mask
FreeBits(i) ==
  And(And(layout.h_fns[i], Not(Accumulate(layout.col_masks, 1))),
      Not(Accumulate(layout.row_masks, 1)))

\* the sweep over the h_fns: where the parity disagrees with the bank bit, the
\* lowest free bit of the function is toggled with the int `1 << h_lsb`
h_lsb_any(i) == count_trailing_zero_bits(layout.h_fns[i])

h_lsb(i) == count_trailing_zero_bits(FreeBits(i))

RECURSIVE Sweep(_, _, _)
Sweep(bank, i, p_addr) ==
  IF i > Len(layout.h_fns) THEN p_addr
  ELSE IF xor_bits(p_addr, layout.h_fns[i]) = (IF (i - 1) \in bank THEN 1 ELSE 0)
    THEN Sweep(bank, i + 1, p_addr)
    ELSE Sweep(bank, i + 1,
               Xor(p_addr, IntOneShl(h_lsb(i), ub)))

\* DRAMAddr::phys
phys(d) ==
  Sweep(d.bank, 1, Or(Place(d.row, layout.row_masks), Place(d.col, layout.col_masks)))

----------------------------------------------------------------------------
(* The layouts and inputs the translation is checked on. Every position of *)
(* an address of AddrBits bits is a row bit, a column bit or neither; the  *)
(* maximal runs of row (column) bits are the row (column) masks, lowest    *)
(* first, so single-mask and multi-mask lists both occur and every mask is *)
(* contiguous, as Config::verify_masks demands. The whole layout is placed *)
(* at bit 0 or at bit HighShift, which reaches bit 31 and above.           *)

AddrBits == 3
HighShift == 30
FnCounts == {0, 1, 2}
Kinds == {"r", "c", "f"}

\* the runs of the positions of kind k, as masks, lowest first
RECURSIVE RunsFrom(_, _, _, _)
RunsFrom(kind, k, pos, sh) ==
  IF pos >= AddrBits THEN <<>>
  ELSE IF kind[pos] # k THEN RunsFrom(kind, k, pos + 1, sh)
  ELSE LET end == Min({e \in pos..AddrBits : e = AddrBits \/ kind[e] # k})
       IN <<{sh + b : b \in pos..(end - 1)}>> \o RunsFrom(kind, k, end, sh)

MaskBits(masks) == UNION {masks[i] : i \in 1..Len(masks)}

HFnCandidates(sh) ==
  {h \in SUBSET {sh + b : b \in 0..(AddrBits - 1)} : Cardinality(h) \in {1, 2}}

Layouts ==
  {[h_fns |-> f, row_masks |-> RunsFrom(kind, "r", 0, sh), col_masks |-> RunsFrom(kind, "c", 0, sh)] :
     <<kind, sh, f>> \in
       {t \in [0..(AddrBits - 1) -> Kinds] \X {0, HighShift}
                \X UNION {[1..n -> HFnCandidates(0) \cup HFnCandidates(HighShift)] : n \in FnCounts} :
          \A i \in 1..Len(t[3]) :
             /\ t[3][i] \in HFnCandidates(t[2])
             /\ \E b \in t[3][i] : t[1][b - t[2]] = "f"}}

LowWords(n) == SUBSET (0..(n - 1))

\* Config::dram_layout as config.h initialises it: h_fns 0x2040, 0x44000,
\* 0x88000, 0x110000, 0x220000, row mask 0xffffc0000, column mask 0x1fff
DefaultLayout ==
  [h_fns |-> <<{6, 13}, {14, 18}, {15, 19}, {16, 20}, {17, 21}>>,
   row_masks |-> <<18..35>>,
   col_masks |-> <<0..12>>]

\* row 0x48d of the default layout
ExampleRow == {0, 2, 3, 7, 10}

\* the addresses of row 0x48d with any of the bits 12..17 set, 0x12345000 among
\* them, and the triples of that row with column 0 or 0x1000 and any bank
ExamplePhys == {Shl(ExampleRow, 18) \cup low : low \in SUBSET (12..17)}

ExampleTriples ==
  {[bank |-> b, row |-> ExampleRow, col |-> c] : b \in LowWords(5), c \in {{}, {12}}}

InitDram ==
  /\ layout \in Layouts \cup {DefaultLayout}
  /\ ub \in (IF \E i \in 1..Len(layout.h_fns) : \E b \in layout.h_fns[i] : b >= IntBits
             THEN {"wrap", "zero"} ELSE {"wrap"})
  /\ dmode \in {"phys", "triple"}
  /\ din \in (IF layout = DefaultLayout
              THEN (IF dmode = "phys" THEN {[p |-> p] : p \in ExamplePhys}
                    ELSE ExampleTriples)
              ELSE IF dmode = "phys"
              THEN {[p |-> p] : p \in SUBSET (MaskBits(layout.row_masks) \cup MaskBits(layout.col_masks)
                                              \cup MaskBits(layout.h_fns))}
              ELSE {[bank |-> b, row |-> r, col |-> c] :
                      b \in LowWords(Len(layout.h_fns)),
                      r \in LowWords(Cardinality(MaskBits(layout.row_masks))),
                      c \in LowWords(Cardinality(MaskBits(layout.col_masks)))})
  /\ dmid = {}
  /\ dout = {}
  /\ dpc = "in"
  /\ IdlePages
  /\ IdleFlip
  /\ IdleFinder
  /\ IdleKernel

\* DRAMAddr(p).phys()
PhysRoundTrip ==
  /\ dpc = "in" /\ dmode = "phys"
  /\ dmid' = DRAMAddr(din.p)
  /\ dout' = phys(DRAMAddr(din.p))
  /\ dpc' = "out"
  /\ UNCHANGED <<layout, ub, dmode, din, pageVars, flipVars, finderVars, kernelVars, configVars>>

\* DRAMAddr(DRAMAddr(bank, row, col).phys())
TripleRoundTrip ==
  /\ dpc = "in" /\ dmode = "triple"
  /\ dmid' = phys(din)
  /\ dout' = DRAMAddr(phys(din))
  /\ dpc' = "out"
  /\ UNCHANGED <<layout, ub, dmode, din, pageVars, flipVars, finderVars, kernelVars, configVars>>

NextDram == PhysRoundTrip \/ TripleRoundTrip

SpecDram == InitDram /\ [][NextDram]_vars

----------------------------------------------------------------------------
(* The two paths of phys(), get_dram_row and get_dram_col are compared on   *)
(* layouts of one row mask and one column mask: a value of up to PathBits   *)
(* bits, or one that has a bit at or past the width of the mask, is placed, *)
(* and an address with bits inside and around the mask is projected.        *)

PathBits == 3

PathMasks == {{0, 1}, {1, 2}, {29, 30, 31}, 18..35, 0..12}

PathValues(mask) ==
  LowWords(PathBits) \cup {{count_one_bits(mask)}, {0, count_one_bits(mask) + 1}}

PathAddrs(mask) ==
  SUBSET {b \in BitPos : b \in {Min(mask) - 1, Min(mask), Min(mask) + 1, Max(mask),
                                Max(mask) + 1}}

InitPaths ==
  /\ layout \in {[h_fns |-> <<>>, row_masks |-> <<m>>, col_masks |-> <<m>>] : m \in PathMasks}
  /\ ub = "wrap" /\ dmode = "paths"
  /\ din \in {[kind |-> k, val |-> v, p |-> {}] :
                k \in {"row", "col"}, v \in PathValues(layout.row_masks[1])}
           \cup {[kind |-> k, val |-> {}, p |-> a] :
                   k \in {"row", "col"}, a \in PathAddrs(layout.row_masks[1])}
  /\ dmid = {} /\ dout = {} /\ dpc = "in"
  /\ IdlePages /\ IdleFlip /\ IdleFinder /\ IdleKernel

\* what the loop of phys() leaves in r (c) for the assert after it
RECURSIVE PlaceRest(_, _, _)
PlaceRest(val, masks, i) ==
  IF i > Len(masks) THEN val
  ELSE PlaceRest(pop_least_significant_bits(val, count_one_bits(masks[i])).val, masks, i + 1)

\* the branch of phys() and of get_dram_row (get_dram_col) for the masks as
\* they are, and the else branch and the loop run for the same masks
BothPaths ==
  /\ dpc = "in" /\ dmode = "paths"
  /\ LET masks == IF din.kind = "row" THEN layout.row_masks ELSE layout.col_masks
     IN dout' = [placed |-> Place(din.val, masks),
                 placed_loop |-> PlaceLoop(din.val, masks, 1, {}),
                 assert_holds |-> PlaceRest(din.val, masks, 1) = {},
                 got |-> Extract(din.p, masks),
                 got_loop |-> ExtractLoop(din.p, masks, 1, {}, 0)]
  /\ dpc' = "out"
  /\ UNCHANGED <<layout, ub, dmode, din, dmid, pageVars, flipVars, finderVars, kernelVars,
                 configVars>>

NextPaths == BothPaths

SpecPaths == InitPaths /\ [][NextPaths]_vars

RowColBits == MaskBits(layout.row_masks) \cup MaskBits(layout.col_masks)

\* no h_fn shares a bit with a row or column mask
HFnsOutsideMasks == \A i \in 1..Len(layout.h_fns) : And(layout.h_fns[i], RowColBits) = {}

\* the bit that phys() toggles for an h_fn is below bit 31 (where the int
\* `1 << h_lsb` is the single bit) and belongs to no other h_fn
HFnsIndependent ==
  \A i \in 1..Len(layout.h_fns) :
     /\ h_lsb(i) < IntBits - 1
     /\ \A j \in 1..Len(layout.h_fns) : j # i => h_lsb(i) \notin layout.h_fns[j]

ToggledBits == {h_lsb(i) : i \in 1..Len(layout.h_fns)}

\* C1 as stated: for every layout whose h_fns share no bit with a row or
\* column mask and every p with only row, column or h_fn bits set,
\* DRAMAddr(p).phys() = p.
C1_AsStated ==
  (dpc = "out" /\ dmode = "phys" /\ HFnsOutsideMasks) => dout = din.p

\* C1 amended: for every layout whose h_fns share no bit with a row or column
\* mask and whose h_fns each have a lowest bit below bit 31 that is in no other
\* h_fn, and for every p whose set bits are row bits, column bits or those
\* lowest h_fn bits, DRAMAddr(p).phys() = p.
C1_RoundTrip ==
  (/\ dpc = "out" /\ dmode = "phys"
   /\ HFnsOutsideMasks /\ HFnsIndependent
   /\ din.p \subseteq (RowColBits \cup ToggledBits))
  => dout = din.p

\* a round trip that toggled the bits of an h_fn and carried row and column bits
C1_Witness ==
  /\ dpc = "out" /\ dmode = "phys"
  /\ HFnsOutsideMasks /\ HFnsIndependent
  /\ din.p \subseteq (RowColBits \cup ToggledBits)
  /\ Len(layout.h_fns) = 1 /\ dmid.bank = {0}
  /\ dmid.row # {} /\ dmid.col # {}
  /\ dout = din.p

\* C2 as stated: for every (bank, row, col) within the capacity of the layout,
\* DRAMAddr(DRAMAddr(bank, row, col).phys()) is (bank, row, col) again.
C2_AsStated ==
  (dpc = "out" /\ dmode = "triple") => dout = din

\* C2 amended: for every layout in which each h_fn has a lowest bit outside the
\* row and column masks that is below bit 31 and in no other h_fn, and every
\* (bank, row, col) within the capacity, the round trip yields the triple again.
C2_RoundTrip ==
  (dpc = "out" /\ dmode = "triple" /\ HFnsIndependent) => dout = din

\* a triple whose bank needed two toggles, with an h_fn that also covers a
\* row or column bit
C2_Witness ==
  /\ dpc = "out" /\ dmode = "triple" /\ HFnsIndependent
  /\ Len(layout.h_fns) = 2 /\ din.bank = {0, 1}
  /\ ~HFnsOutsideMasks
  /\ din.row # {}
  /\ dout = din

----------------------------------------------------------------------------
(* phys_page_finder.cpp, BitFlipper::find_pages *)

page_size == 4096
row_size == 8192
KeyBits == 32

RECURSIVE Log2(_)
Log2(n) == IF n <= 1 THEN 0 ELSE 1 + Log2(n \div 2)

PageShift == Log2(page_size)

\* a < b on uint64_t
ULess(a, b) == a # b /\ Max(Xor(a, b)) \in b

\* phys_addr / page_size as the key_type of pagemap_t: the uint64_t quotient is
\* converted to uint32_t by the call of std::map<uint32_t, uint32_t>::find
PageKey(phys_addr) == And(Shr(phys_addr, PageShift), IntLowMask(KeyBits))

\* the virtual address of the page at page offset off
PageVirt(off) == Add(mem, Shl(off, PageShift))

\* [ret, virt]: virt is the output argument, virt_addr its value before the call
find_page_unscaled(phys_addr, virt_addr) ==
  IF PageKey(phys_addr) \notin DOMAIN pagemap
    THEN [ret |-> FALSE, virt |-> virt_addr]
    ELSE [ret |-> TRUE, virt |-> Add(mem, pagemap[PageKey(phys_addr)])]

find_page(phys_addr, virt_addr) ==
  IF PageKey(phys_addr) \notin DOMAIN pagemap
    THEN [ret |-> FALSE, virt |-> virt_addr]
    ELSE [ret |-> TRUE, virt |-> PageVirt(pagemap[PageKey(phys_addr)])]

\* one loop of find_pages over a vector of physical addresses and the vector
\* of virtual addresses beside it: found &= find_page(phys[i], virt[i])
FindLoopLast(physs, virts) ==
  [found |-> Len(physs) = 0 \/ find_page(physs[Len(physs)], virts[Len(physs)]).ret,
   virt |-> [i \in 1..Len(physs) |-> find_page(physs[i], virts[i]).virt]]

FindLoop(physs, virts) ==
  [found |-> \A i \in 1..Len(physs) : find_page(physs[i], virts[i]).ret,
   virt |-> [i \in 1..Len(physs) |-> find_page(physs[i], virts[i]).virt]]

\* BitFlipper::BitFlipper: the virtual vectors are value-initialized
ZeroVector(n) == [i \in 1..n |-> {}]

----------------------------------------------------------------------------
(* The page maps and addresses find_page and find_pages are checked on: any *)
(* set of the frames 0..NumFrames-1, mapped one-to-one to the page offsets  *)
(* of a region of NumFrames pages.                                          *)

NumFrames == 3
InPageOffsets == {0, 8, 4095}
MemBases == {{30}}

PageMaps ==
  UNION {{[k \in {ToWord(f) : f \in S} |-> ToWord(g[ToNat(k)])] :
            g \in {h \in [S -> 0..(NumFrames - 1)] :
                     \A x, y \in S : x # y => h[x] # h[y]}} :
         S \in SUBSET (0..(NumFrames - 1))}

\* the physical address at offset off of frame f, plus 2^44 when high
PhysOf(f, off, high) ==
  Or(Add(Shl(ToWord(f), PageShift), ToWord(off)),
     IF high THEN {KeyBits + PageShift} ELSE {})

SeqsUpTo(S, n) == UNION {[1..k -> S] : k \in 0..n}

InitPages ==
  /\ IdleDram
  /\ IdleFlip
  /\ IdleFinder
  /\ IdleKernel
  /\ mem \in MemBases
  /\ pagemap \in PageMaps
  /\ ppc \in {"call_page", "call_pages"}
  /\ hphys \in (IF ppc = "call_page" THEN {[aggs |-> <<>>, victims |-> <<>>]}
                ELSE {[aggs |-> a, victims |-> v] :
                        a \in SeqsUpTo({PhysOf(f, off, h) : f \in 0..(NumFrames - 1),
                                                            off \in {0, 8}, h \in BOOLEAN}, 2),
                        v \in SeqsUpTo({PhysOf(f, 0, FALSE) :
                                          f \in {x \in 0..(NumFrames - 1) : x % 2 = 0}}, 1)})
  /\ virt_aggs = ZeroVector(Len(hphys.aggs))
  /\ virt_victims = ZeroVector(Len(hphys.victims))
  /\ found = FALSE
  /\ query \in (IF ppc = "call_pages" THEN {[phys |-> {}, virt0 |-> {}, virt |-> {}]}
                ELSE {[phys |-> PhysOf(f, off, h), virt0 |-> v, virt |-> v] :
                        f \in 0..NumFrames, off \in InPageOffsets, h \in BOOLEAN,
                        v \in {{}, {5}}})

\* PhysPageFinder::find_page
FindPage ==
  /\ ppc = "call_page"
  /\ found' = find_page(query.phys, query.virt).ret
  /\ query' = [query EXCEPT !.virt = find_page(query.phys, query.virt).virt]
  /\ ppc' = "ret_page"
  /\ UNCHANGED <<mem, pagemap, hphys, virt_aggs, virt_victims, dramVars, flipVars, finderVars, kernelVars, configVars>>

\* BitFlipper::find_pages
FindPages ==
  /\ ppc = "call_pages"
  /\ found' = (FindLoop(hphys.aggs, virt_aggs).found
               /\ FindLoop(hphys.victims, virt_victims).found)
  /\ virt_aggs' = FindLoop(hphys.aggs, virt_aggs).virt
  /\ virt_victims' = FindLoop(hphys.victims, virt_victims).virt
  /\ ppc' = "ret_pages"
  /\ UNCHANGED <<mem, pagemap, hphys, query, dramVars, flipVars, finderVars, kernelVars, configVars>>

NextPages == FindPage \/ FindPages

SpecPages == InitPages /\ [][NextPages]_vars

\* the frame number of a physical address, all 52 bits of it
FrameOf(phys_addr) == Shr(phys_addr, PageShift)

Owned(phys_addr) == FrameOf(phys_addr) \in DOMAIN pagemap

\* below 16 TiB: the frame number fits the 32-bit key of the page map
Below16TiB(phys_addr) == \A b \in phys_addr : b < KeyBits + PageShift

InPageOffset(addr) == And(addr, IntLowMask(PageShift))

\* mem <= virt < mem + NumFrames * page_size
InRegion(virt) ==
  /\ ~ULess(virt, mem)
  /\ ULess(virt, Add(mem, Shl(ToWord(NumFrames), PageShift)))

AllPhys == [i \in 1..(Len(hphys.aggs) + Len(hphys.victims)) |->
              IF i <= Len(hphys.aggs) THEN hphys.aggs[i] ELSE hphys.victims[i - Len(hphys.aggs)]]

AllVirt == virt_aggs \o virt_victims

\* C9 as stated: find_pages returns true iff every aggressor and victim has its
\* page in the PageMap, and when it returns false no entry of virt_aggs or
\* virt_victims has been changed.
C9_AsStated ==
  ppc = "ret_pages" =>
    /\ found <=> \A i \in 1..Len(AllPhys) : Owned(AllPhys[i])
    /\ ~found => \A i \in 1..Len(AllVirt) : AllVirt[i] = {}

\* C9 amended: for addresses below 16 TiB find_pages returns true iff every
\* aggressor and victim has its page in the PageMap; whatever it returns, every
\* entry whose page is in the PageMap holds that page's virtual address and every
\* other entry is unchanged (so a false return leaves partial state).
C9_FindPages ==
  (ppc = "ret_pages" /\ \A i \in 1..Len(AllPhys) : Below16TiB(AllPhys[i])) =>
    /\ found <=> \A i \in 1..Len(AllPhys) : Owned(AllPhys[i])
    /\ \A i \in 1..Len(AllPhys) :
         AllVirt[i] = IF Owned(AllPhys[i]) THEN PageVirt(pagemap[FrameOf(AllPhys[i])])
                      ELSE {}

\* find_pages returned false after it resolved one aggressor and missed another
C9_Witness ==
  /\ ppc = "ret_pages" /\ ~found
  /\ \A i \in 1..Len(AllPhys) : Below16TiB(AllPhys[i])
  /\ Len(hphys.aggs) = 2 /\ Len(hphys.victims) = 1
  /\ Owned(hphys.aggs[1]) /\ ~Owned(hphys.aggs[2]) /\ Owned(hphys.victims[1])
  /\ virt_aggs[1] # {} /\ virt_aggs[2] = {} /\ virt_victims[1] # {}

\* C10 as stated: for a frame in the PageMap find_page yields a virtual address
\* inside the owned region with the in-page offset of phys; for a frame not in
\* the PageMap it returns false and leaves the output unchanged.
C10_AsStated ==
  ppc = "ret_page" =>
    IF Owned(query.phys)
      THEN found /\ InRegion(query.virt)
           /\ InPageOffset(query.virt) = InPageOffset(query.phys)
      ELSE ~found /\ query.virt = query.virt0

\* C10 amended: for a physical address below 16 TiB whose frame is in the
\* PageMap find_page returns true and yields the first byte of the page mapped to
\* that frame, inside the owned region and with in-page offset 0 (the offset of
\* phys is dropped); for a frame not in the PageMap it returns false and leaves
\* the output unchanged.
C10_FindPage ==
  (ppc = "ret_page" /\ Below16TiB(query.phys)) =>
    IF Owned(query.phys)
      THEN found /\ InRegion(query.virt)
           /\ query.virt = PageVirt(pagemap[FrameOf(query.phys)])
           /\ InPageOffset(query.virt) = {}
      ELSE ~found /\ query.virt = query.virt0

\* find_page resolved an address in the middle of a page that is not the first
\* page of the region
C10_Witness ==
  /\ ppc = "ret_page" /\ Below16TiB(query.phys) /\ Owned(query.phys) /\ found
  /\ InPageOffset(query.phys) # {}
  /\ pagemap[FrameOf(query.phys)] # {}
  /\ query.virt # query.virt0

----------------------------------------------------------------------------
(* bit_flipper.cpp: hammer_and_check and hammer *)

pages_per_row == row_size \div page_size
WordBytes == 8
WordsPerPage == page_size \div WordBytes

\* the pages the loop `addr = virt; addr < virt + row_size; addr += 8` walks
RowPages(virt) == {Add(virt, ToWord(j * page_size)) : j \in 0..(pages_per_row - 1)}

\* *addr for the word k of page p
Read(r, p, k) == IF k \in DOMAIN r[p].diff THEN r[p].diff[k] ELSE r[p].fill

\* one initialisation loop of hammer_and_check: every word of every row := val
WriteRows(r, virts, val) ==
  LET P == UNION {RowPages(virts[k]) : k \in 1..Len(virts)}
  IN [p \in (DOMAIN r) \cup P |->
        IF p \in P THEN [fill |-> val, diff |-> <<>>] ELSE r[p]]

\* what hammering does to the memory: each word of F has the bits of its mask
\* inverted
Disturb(r, F) ==
  [p \in DOMAIN r |->
     [fill |-> r[p].fill,
      diff |-> [k \in (DOMAIN r[p].diff) \cup {f.idx : f \in {g \in F : g.page = p}} |->
                  IF \E f \in F : f.page = p /\ f.idx = k
                    THEN Xor(Read(r, p, k), (CHOOSE f \in F : f.page = p /\ f.idx = k).mask)
                    ELSE Read(r, p, k)]]]

\* the loop over bit of the scan, for one word val that is not victim_init: the
\* bits 0..63 in ascending order, those left out that `continue` skips
FlippedBits(val, init) == {bit \in 0..(WordBits - 1) : (bit \in init) # (bit \in val)}

RECURSIVE ScanBitsFlipsFrom(_, _, _, _, _)
ScanBitsFlipsFrom(victim, flip_offset_bytes, val, init, todo) ==
  IF todo = {} THEN <<>>
  ELSE LET bit == Min(todo)
       IN <<[victim_phys |-> Add(victim, ToWord(flip_offset_bytes + (bit \div 8))),
             victim_bit |-> bit % 8,
             flips_to |-> IF bit \in init THEN 1 ELSE 0]>>
          \o ScanBitsFlipsFrom(victim, flip_offset_bytes, val, init, todo \ {bit})

RECURSIVE ScanBitsWordIndex(_, _, _, _, _)
ScanBitsWordIndex(victim, flip_offset_bytes, val, init, todo) ==
  IF todo = {} THEN <<>>
  ELSE LET bit == Min(todo)
       IN <<[victim_phys |-> Add(victim, ToWord(flip_offset_bytes + (bit \div 8))),
             victim_bit |-> bit,
             flips_to |-> IF bit \in val THEN 1 ELSE 0]>>
          \o ScanBitsWordIndex(victim, flip_offset_bytes, val, init, todo \ {bit})

RECURSIVE ScanBits(_, _, _, _, _)
ScanBits(victim, flip_offset_bytes, val, init, todo) ==
  IF todo = {} THEN <<>>
  ELSE LET bit == Min(todo)
       IN <<[victim_phys |-> Add(victim, ToWord(flip_offset_bytes + (bit \div 8))),
             victim_bit |-> bit % 8,
             flips_to |-> IF bit \in val THEN 1 ELSE 0]>>
          \o ScanBits(victim, flip_offset_bytes, val, init, todo \ {bit})

\* the words of page p that are not init, the only ones the scan does not skip
Differing(r, p, init) ==
  IF r[p].fill = init THEN {k \in DOMAIN r[p].diff : r[p].diff[k] # init}
  ELSE {k \in 0..(WordsPerPage - 1) : Read(r, p, k) # init}

\* the loop over addr of the scan, for the words of page j of the row of victim
\* number v, in ascending order from word k on
RECURSIVE ScanPage(_, _, _, _, _)
ScanPage(r, v, j, init, todo) ==
  IF todo = {} THEN <<>>
  ELSE LET k == Min(todo)
           val == Read(r, Add(virt_victims[v], ToWord(j * page_size)), k)
       IN ScanBits(hphys.victims[v], j * page_size + k * WordBytes, val, init,
                   FlippedBits(val, init))
          \o ScanPage(r, v, j, init, todo \ {k})

RECURSIVE ScanRow(_, _, _, _)
ScanRow(r, v, j, init) ==
  IF j >= pages_per_row THEN <<>>
  ELSE ScanPage(r, v, j, init, Differing(r, Add(virt_victims[v], ToWord(j * page_size)), init))
       \o ScanRow(r, v, j + 1, init)

\* the loop over v of the scan
RECURSIVE Scan(_, _, _)
Scan(r, v, init) ==
  IF v > Len(hphys.victims) THEN <<>>
  ELSE ScanRow(r, v, 0, init) \o Scan(r, v + 1, init)

\* hammer_and_check, its two initialisation loops: the victim rows, then the
\* aggressor rows
init_rows(r, vinit, ainit) == WriteRows(WriteRows(r, virt_victims, vinit), virt_aggs, ainit)

\* hammer_and_check from hammer_aggs() on, F the words that hammering disturbs:
\* the memory after it, the flips the scan reports, and whether a victim word
\* differed
hammer_and_scan(written, vinit, F) ==
  LET hammered == Disturb(written, F)
  IN [ram |-> hammered,
      events |-> Scan(hammered, 1, vinit),
      differed |-> \E v \in 1..Len(virt_victims) :
                     \E p \in RowPages(virt_victims[v]) : Differing(hammered, p, vinit) # {}]

\* config.interval
interval == 3

\* what get_actual_temperature can return while the target is target: a
\* temperature outside target +- interval, one inside it, and the target
Readings(target) == {target - interval, target - 1, target}

\* the test of hammer_and_check that ends the process
outside_interval(actual_temp, target_temp) ==
  actual_temp <= target_temp - interval \/ actual_temp >= target_temp + interval

\* the readings hammer_and_check can get, one outside target +- interval and
\* one inside it: it reads the temperature only with target temperatures
\* configured
CheckReadings ==
  IF target_temps = <<>> THEN {0}
  ELSE {target_temperature - interval, target_temperature - 1}

Excursion(actual_temp) ==
  target_temps # <<>> /\ outside_interval(actual_temp, target_temperature)

PairStepsHammerFirst(i, flips, excursion) ==
  <<[step |-> "hammer_aggs", pair |-> i], [step |-> "fill_victims", pair |-> i],
    [step |-> "fill_aggressors", pair |-> i], [step |-> "insert_test", pair |-> i],
    [step |-> "scan", pair |-> i]>>

\* what hammer_and_check for the pair i does, in order; flips is the number of
\* flips the scan reports, whose calls of insert_bitflip are one entry; after
\* an excursion of the temperature nothing follows hammer_aggs()
PairSteps(i, flips, excursion) ==
  <<[step |-> "fill_victims", pair |-> i], [step |-> "fill_aggressors", pair |-> i],
    [step |-> "hammer_aggs", pair |-> i]>>
  \o (IF excursion THEN <<>>
      ELSE <<[step |-> "insert_test", pair |-> i], [step |-> "scan", pair |-> i]>>
           \o (IF flips > 0 THEN <<[step |-> "insert_bitflip", pair |-> i]>> ELSE <<>>))

\* db->begin_transaction(), db->commit()
no_transaction == [step |-> "none", pair |-> 0]

begin_transaction == [step |-> "begin_transaction", pair |-> 0]
commit == [step |-> "commit", pair |-> 0]

\* seen_flip |= hammer_and_check(...)
AccumulateLast(seen, flipped) == flipped

Accumulate_seen_flip(seen, flipped) == seen \/ flipped

----------------------------------------------------------------------------
(* The flipper is checked on a region that holds the rows 0..FlipRows-1, a   *)
(* row's pages side by side. Its addresses are a hammer pattern of victims   *)
(* and aggressors laid over consecutive rows. Hammering inverts bits of at   *)
(* most two words, each the first or the last word of a row of the pattern.  *)

FlipRows == 3
FlipMasks == {{0}, {63}, {0, 7}}
InitVectors == {<<>>, <<{0, 63}>>, <<{}, BitPos>>}
\* config.target_temps: none, or one, which the controller has been set to
FlipTemps == {<<>>, <<50>>}
Patterns == {<<"a">>, <<"v", "a">>, <<"a", "v", "a">>, <<"v", "a", "v">>}

RowPhys(row) == Shl(ToWord(row), Log2(row_size))

RECURSIVE Ascending(_)
Ascending(S) == IF S = {} THEN <<>> ELSE <<Min(S)>> \o Ascending(S \ {Min(S)})

\* the rows of kind x of the pattern laid over the rows from first_row on
RowsOf(pattern, first_row, x) ==
  LET rows == Ascending({first_row + k - 1 : k \in {n \in 1..Len(pattern) : pattern[n] = x}})
  IN [k \in 1..Len(rows) |-> RowPhys(rows[k])]

\* the first and the last word of each row hammer_and_check has written
FlipTargets ==
  UNION {{[page |-> virt, idx |-> 0],
          [page |-> Add(virt, ToWord((pages_per_row - 1) * page_size)),
           idx |-> WordsPerPage - 1]} :
         virt \in {virt_aggs[k] : k \in 1..Len(virt_aggs)}
                  \cup {virt_victims[k] : k \in 1..Len(virt_victims)}}

Disturbances ==
  LET One == {[page |-> t.page, idx |-> t.idx, mask |-> m] :
                t \in FlipTargets, m \in FlipMasks}
  IN {{}} \cup {{f} : f \in One}
     \cup {{pr[1], pr[2]} :
             pr \in {q \in One \X One : q[1].page # q[2].page \/ q[1].idx # q[2].idx}}

InitFlip ==
  /\ IdleDram
  /\ IdleRun
  /\ IdleKernel
  /\ mem \in MemBases
  /\ pagemap = [k \in {ToWord(f) : f \in 0..(FlipRows * pages_per_row - 1)} |-> k]
  /\ hphys \in {[aggs |-> RowsOf(w[1], w[2], "a"), victims |-> RowsOf(w[1], w[2], "v")] :
                  w \in {x \in Patterns \X (0..(FlipRows - 1)) :
                           x[2] + Len(x[1]) <= FlipRows}}
  /\ virt_aggs = ZeroVector(Len(hphys.aggs))
  /\ virt_victims = ZeroVector(Len(hphys.victims))
  /\ found = FALSE
  /\ query = [phys |-> {}, virt |-> {}]
  /\ ppc = "call_pages"
  /\ victim_init \in InitVectors
  /\ aggressor_init = [k \in 1..Len(victim_init) |-> Not(victim_init[k])]
  /\ ram = <<>> /\ pair_i = 0 /\ seen_flip = FALSE /\ events = <<>> /\ bitflips = 0
  /\ hret = FALSE /\ hpc = "call" /\ tested = <<>> /\ differed = <<>> /\ steps = <<>>
  /\ target_temps \in (IF Len(victim_init) = 2 /\ hphys.victims = <<{}>>
                           /\ Len(hphys.aggs) = 1
                        THEN FlipTemps ELSE {<<>>})
  /\ target_temperature = (IF target_temps = <<>> THEN -1 ELSE target_temps[1])

\* BitFlipper::hammer up to its loop, called once find_pages has returned true
HammerCall ==
  /\ hpc = "call" /\ ppc = "ret_pages" /\ found
  /\ pair_i' = 0
  /\ seen_flip' = FALSE
  /\ hpc' = "loop"
  /\ steps' = <<begin_transaction>>
  /\ UNCHANGED <<victim_init, aggressor_init, ram, events, bitflips, hret, tested,
                 differed, pageVars, dramVars, finderVars, kernelVars, configVars>>

\* one turn of the loop of BitFlipper::hammer: hammer_and_check on the pair i
HammerAndCheck ==
  /\ hpc = "loop" /\ pair_i < Len(aggressor_init)
  /\ LET written == init_rows(ram, victim_init[pair_i + 1], aggressor_init[pair_i + 1])
     IN \E F \in Disturbances, actual_temp \in CheckReadings :
          LET res == hammer_and_scan(written, victim_init[pair_i + 1], F)
          IN IF Excursion(actual_temp)
               THEN /\ ram' = res.ram
                    /\ steps' = steps \o PairSteps(pair_i + 1, 0, TRUE)
                    /\ hpc' = "exited"
                    /\ UNCHANGED <<events, bitflips, seen_flip, differed, tested, pair_i>>
               ELSE /\ ram' = res.ram
                    /\ events' = res.events
                    /\ bitflips' = Len(res.events)
                    /\ seen_flip' = Accumulate_seen_flip(seen_flip, Len(res.events) > 0)
                    /\ differed' = Append(differed, res.differed)
                    /\ steps' = steps \o PairSteps(pair_i + 1, Len(res.events), FALSE)
                    /\ tested' = Append(tested, pair_i + 1)
                    /\ pair_i' = pair_i + 1
                    /\ UNCHANGED hpc
  /\ UNCHANGED <<victim_init, aggressor_init, hret, pageVars, dramVars, finderVars, kernelVars, configVars>>

\* the end of BitFlipper::hammer
HammerReturn ==
  /\ hpc = "loop" /\ pair_i >= Len(aggressor_init)
  /\ hret' = seen_flip
  /\ hpc' = "ret"
  /\ steps' = Append(steps, commit)
  /\ UNCHANGED <<victim_init, aggressor_init, ram, pair_i, seen_flip, events, bitflips,
                 tested, differed, pageVars, dramVars, finderVars, kernelVars, configVars>>

NextFlip == FindPages \/ HammerCall \/ HammerAndCheck \/ HammerReturn

SpecFlip == InitFlip /\ [][NextFlip]_vars

----------------------------------------------------------------------------
(* flip_finder.h, noncontiguous_flip_finder.cpp *)

\* a - b on uint64_t, a <= b on uint64_t, the least word of a set
Sub(a, b) == Add(a, Add(Not(b), {0}))
ULeq(a, b) == a = b \/ ULess(a, b)
UMin(S) == CHOOSE x \in S : \A y \in S : ULeq(x, y)

phys_2_page(phys_addr) == ToNat(Shr(phys_addr, 12))
page_2_phys(page) == Shl(ToWord(page), 12)

\* PhysPageFinder::contains
contains(page) == And(ToWord(page), IntLowMask(KeyBits)) \in DOMAIN pagemap

\* FlipFinder::hammer_rows, FlipFinder::victim_rows
hammer_rows == Len(hammer_pattern)
victim_rows == Cardinality({k \in 1..Len(hammer_pattern) : hammer_pattern[k] = "v"})

get_page_bounds ==
  LET pages == {ToNat(k) : k \in DOMAIN pagemap}
  IN [first_page |-> Min(pages), last_page |-> Max(pages)]

DramOfPage(page) == DRAMAddr(page_2_phys(page))

\* the first loop runs up from first_page; the second one runs down from the
\* page before last_page to page 0
get_row_bounds(bank, fp, lp) ==
  LET up == {p \in fp..lp : contains(p) /\ DramOfPage(p).bank = ToWord(bank)}
      down == {p \in 0..(lp - 1) : contains(p) /\ DramOfPage(p).bank = ToWord(bank)}
      first_row == IF up = {} THEN BitPos ELSE DramOfPage(Min(up)).row
      last_row == IF down = {} THEN {} ELSE DramOfPage(Max(down)).row
  IN [first_row |-> IF test_first_row # 0 /\ ULess(first_row, ToWord(test_first_row))
                      THEN ToWord(test_first_row) ELSE first_row,
      last_row |-> IF test_last_row # 0 /\ ULess(ToWord(test_last_row), last_row)
                     THEN ToWord(test_last_row) ELSE last_row]

\* missing_rows after find_missing_rows: an entry for each bank of a missing page
find_missing_rows(fp, lp) ==
  LET missing == {p \in fp..lp : ~contains(p)}
  IN [b \in {ToNat(DramOfPage(p).bank) : p \in missing} |->
        {DramOfPage(p).row : p \in {q \in missing : ToNat(DramOfPage(q).bank) = b}}]

\* missing_rows[bank], which makes an empty entry for a bank that has none
WithEntry(rows, bank) ==
  [b \in (DOMAIN rows) \cup {bank} |-> IF b \in DOMAIN rows THEN rows[b] ELSE {}]

\* lower_bound(first_row - padding) in the ordered set of the bank
is_any_row_missing(bank, first_row, last_row) ==
  LET padding == ToWord(row_padding)
      from_lb == {r \in missing_rows[bank] : ULeq(Sub(first_row, padding), r)}
  IN from_lb # {} /\ ULeq(UMin(from_lb), Add(last_row, padding))

\* the HammerAddrs the loop over hammer_pattern builds; RowStart[k] is the
\* address of the row at offset k - 1
PatternAddrs(RowStart) ==
  LET Pick(x) == SelectSeq([k \in 1..Len(hammer_pattern) |-> k],
                           LAMBDA k : hammer_pattern[k] = x)
  IN [aggs |-> [n \in 1..Len(Pick("a")) |-> RowStart[Pick("a")[n]]],
      victims |-> [n \in 1..Len(Pick("v")) |-> RowStart[Pick("v")[n]]]]

NoncontiguousAddrs(bank, first_victim) ==
  LET RowStart(k) == phys([bank |-> ToWord(bank),
                           row |-> Add(first_victim, ToWord(k - 1)),
                           col |-> {}])
  IN PatternAddrs([k \in 1..Len(hammer_pattern) |-> RowStart(k)])

\* BitFlipper::hammer as a whole, Fs[i] the words that hammering disturbs in the
\* turn i of its loop
RECURSIVE HammerLoop(_, _, _)
HammerLoop(st, i, Fs) ==
  IF i > Len(aggressor_init) THEN st
  ELSE LET res == hammer_and_scan(init_rows(st.ram, victim_init[i], aggressor_init[i]),
                                  victim_init[i], Fs[i])
       IN HammerLoop([ram |-> res.ram, events |-> res.events,
                      seen_flip |-> Accumulate_seen_flip(st.seen_flip, Len(res.events) > 0),
                      tested |-> Append(st.tested, i),
                      differed |-> Append(st.differed, res.differed),
                      steps |-> st.steps \o PairSteps(i, Len(res.events), FALSE)],
                     i + 1, Fs)

----------------------------------------------------------------------------
(* The finders are checked on a machine of two banks, bank = bit 13 XOR bit  *)
(* 14, with the rows 0..FinderRows-1 of 8 KiB in each bank. The region owns  *)
(* all pages of these rows but for a hole: a row of bank 0, or one page of   *)
(* it; the default runs of one repetition without padding and temperatures   *)
(* also lack the page before the last page. Hammering inverts bit 0 of the   *)
(* first word of the first victim. At most one SIGINT arrives. config.banks  *)
(* lists both banks; the debug runs of one repetition without temperatures   *)
(* are also checked on the lists 1,0 and 1.                                  *)

FinderRows == 4
Paddings == {0, 1}
FinderPatterns == {<<"v", "a">>, <<"a", "v", "a">>}
\* config.banks: all banks, or a list that does not begin with bank 0
BankLists == {<<0, 1>>, <<1, 0>>, <<1>>}
Plans == {[reps |-> 1, temps |-> <<>>, max_time |-> 0],
          [reps |-> 2, temps |-> <<>>, max_time |-> 60],
          [reps |-> 1, temps |-> <<50, 60>>, max_time |-> 0]}

FinderLayout == [h_fns |-> <<{13, 14}>>, row_masks |-> <<14..17>>, col_masks |-> <<0..12>>]

FinderPages == 0..(2 * FinderRows * pages_per_row - 1)

PagesOfRow(bank, r) ==
  LET p == phys_2_page(phys([bank |-> ToWord(bank), row |-> ToWord(r), col |-> {}]))
  IN p..(p + pages_per_row - 1)

Holes ==
  {{}} \cup {PagesOfRow(0, r) : r \in 0..(FinderRows - 1)}
       \cup {{Min(PagesOfRow(0, 0))}, {Max(PagesOfRow(0, 1))}}

\* the page before the last page is not owned
LateHoles == {{Max(FinderPages) - 1}}

FinderDisturbances ==
  IF virt_victims = <<>> THEN {{}}
  ELSE {{[page |-> virt_victims[1], idx |-> 0, mask |-> {0}]}}

InitFinder ==
  /\ layout = FinderLayout /\ ub = "wrap"
  /\ dmode = "idle" /\ din = {} /\ dmid = {} /\ dout = {} /\ dpc = "idle"
  /\ mem \in MemBases
  /\ fkind \in {"noncontiguous", "contiguous"}
  /\ hphys = [aggs |-> <<>>, victims |-> <<>>]
  /\ virt_aggs = <<>> /\ virt_victims = <<>> /\ found = FALSE
  /\ query = [phys |-> {}, virt |-> {}] /\ ppc = "idle"
  /\ victim_init = <<{}>> /\ aggressor_init = <<BitPos>>
  /\ ram = <<>> /\ pair_i = 0 /\ seen_flip = FALSE /\ events = <<>> /\ bitflips = 0
  /\ hret = FALSE /\ hpc = "idle" /\ tested = <<>> /\ differed = <<>> /\ steps = <<>>
  /\ iter_algorithm \in {"default", "fast", "debug"}
  /\ row_padding \in (IF fkind = "contiguous" THEN {0} ELSE Paddings)
  /\ hammer_pattern \in FinderPatterns
  /\ \E plan \in Plans :
       /\ experiment_repetitions = plan.reps
       /\ target_temps = plan.temps
       /\ test_max_time = plan.max_time
  /\ config_banks \in (IF iter_algorithm = "debug" /\ experiment_repetitions = 1
                          /\ target_temps = <<>>
                        THEN BankLists ELSE {<<0, 1>>})
  /\ test_first_row = 0 /\ test_last_row = 0
  /\ pagemap \in {[k \in {ToWord(p) : p \in FinderPages \ hole} |-> k] :
                    hole \in (IF fkind = "contiguous" THEN {{}}
                              ELSE IF iter_algorithm = "default" /\ row_padding = 0
                                      /\ experiment_repetitions = 1 /\ target_temps = <<>>
                                THEN Holes \cup LateHoles
                              ELSE Holes)}
  /\ missing_rows = <<>> /\ first_page = 0 /\ last_page = 0
  /\ banks = <<>> /\ pages_per_bank = 0 /\ temp_i = 0 /\ rep = 0 /\ bank_i = 0
  /\ cur_row = {} /\ cur_last_row = {} /\ cur_offset = 0 /\ second = FALSE
  /\ fpc = "start" /\ do_exit = FALSE /\ handler = FALSE /\ timers = 0
  /\ win = NoWindow /\ sigint = "none" /\ later_start = FALSE
  /\ target_temperature = -1 /\ actual_temperature = 0 /\ elapsed = 0
  /\ IdleKernel

boundsVars == <<missing_rows, first_page, last_page, banks, pages_per_bank>>

posVars == <<temp_i, rep, bank_i, cur_row, cur_last_row, cur_offset, second>>

flipperVars == <<hphys, virt_aggs, virt_victims, found, ppc, flipVars>>

\* the window hammer() is called for
Window(outcome, bank, first) ==
  [outcome |-> outcome, temp |-> temp_i, rep |-> rep, bank |-> bank, first |-> first,
   exit_at_call |-> do_exit,
   pass |-> IF win.outcome # "none" /\ win.temp = temp_i /\ win.rep = rep
              THEN win.pass ELSE <<>>]

\* the window hammer() has found the pages of: the aggressors it logs and
\* hammers join those of the run of the iteration algorithm so far
Hammering(bank, first, aggs) ==
  [Window("hammering", bank, first) EXCEPT !.pass = Append(@, aggs)]

\* experiment_loop from its start to the first repetition or temperature
EnterExperimentLoop(connected) ==
  /\ handler' = TRUE
  /\ temp_i' = 0 /\ rep' = 0
  /\ fpc' = IF target_temps = <<>> THEN "rep" ELSE IF connected THEN "temp" ELSE "failed"

\* the iteration algorithm returns into repetition_loop
IterationReturns ==
  /\ fpc' = "rep"
  /\ rep' = rep + 1
  /\ bank_i' = 0 /\ cur_row' = {} /\ cur_last_row' = {} /\ cur_offset' = 0
  /\ second' = FALSE
  /\ UNCHANGED temp_i

\* what hammer() returns when find_pages has failed
not_found_continue == TRUE

not_found_result == FALSE

\* repetition_loop: the head of its loop
RepetitionStart ==
  /\ fpc = "rep"
  /\ IF rep < experiment_repetitions
       THEN /\ do_exit' = FALSE
            /\ timers' = IF test_max_time > 0 THEN timers + 1 ELSE timers
            /\ later_start' = (later_start \/ sigint = "hammering")
            /\ fpc' = IF fkind = "noncontiguous" THEN "iter" ELSE "win"
            /\ UNCHANGED <<handler, posVars>>
       ELSE /\ IF target_temps = <<>>
                 THEN fpc' = "done" /\ handler' = FALSE /\ UNCHANGED temp_i
                 ELSE fpc' = "temp" /\ temp_i' = temp_i + 1 /\ UNCHANGED handler
            /\ UNCHANGED <<do_exit, timers, later_start, rep, bank_i, cur_row,
                           cur_last_row, cur_offset, second>>
  /\ UNCHANGED <<cfgVars, kernelVars, configVars, tempVars, boundsVars, win, sigint, dramVars, mem, pagemap, query,
                 flipperVars>>

\* config.timeout in seconds
timeout == 2

\* the target the wait loop ends for
reached_always(actual, target) == TRUE

reached(actual, target) == actual = target

\* the condition of the wait loop of experiment_loop
Waiting ==
  /\ ~reached(actual_temperature, target_temps[temp_i + 1])
  /\ elapsed < timeout
  /\ ~do_exit

\* experiment_loop: the head of the loop over config.target_temps, up to the
\* wait loop; after the last temperature the controller is set back to 20
TempStart ==
  /\ fpc = "temp"
  /\ IF temp_i < Len(target_temps)
       THEN /\ target_temperature' = target_temps[temp_i + 1]
            /\ actual_temperature' \in Readings(target_temps[temp_i + 1])
            /\ elapsed' = 0
            /\ do_exit' = FALSE
            /\ later_start' = (later_start \/ sigint = "hammering")
            /\ fpc' = "wait"
            /\ UNCHANGED handler
       ELSE /\ target_temperature' = 20
            /\ fpc' = "done" /\ handler' = FALSE
            /\ UNCHANGED <<do_exit, later_start, actual_temperature, elapsed>>
  /\ UNCHANGED <<cfgVars, kernelVars, configVars, boundsVars, posVars, timers, win, sigint, dramVars, mem,
                 pagemap, query, flipperVars>>

\* experiment_loop: one turn of the wait loop, a sleep of 1 s and a reading
TempPoll ==
  /\ fpc = "wait"
  /\ Waiting
  /\ elapsed' = elapsed + 1
  /\ actual_temperature' \in Readings(target_temperature)
  /\ UNCHANGED <<cfgVars, kernelVars, configVars, boundsVars, posVars, fpc, do_exit, handler, timers, win,
                 sigint, later_start, target_temperature, dramVars, mem, pagemap,
                 query, flipperVars>>

\* experiment_loop: the wait loop is over; exit(EXIT_SUCCESS) on do_exit,
\* log_error_and_exit if the target was not reached, repetition_loop otherwise
TempWait ==
  /\ fpc = "wait"
  /\ ~Waiting
  /\ IF do_exit
       THEN fpc' = "exited" /\ target_temperature' = 20
       ELSE IF actual_temperature # target_temps[temp_i + 1]
         THEN fpc' = "timed_out" /\ target_temperature' = 20
         ELSE fpc' = "rep" /\ UNCHANGED target_temperature
  /\ rep' = 0
  /\ elapsed' = 0
  /\ UNCHANGED <<cfgVars, kernelVars, configVars, boundsVars, temp_i, bank_i, cur_row, cur_last_row, cur_offset,
                 second, do_exit, handler, timers, win, sigint, later_start,
                 actual_temperature, dramVars, mem, pagemap, query, flipperVars>>

\* the SIGINT handler experiment_loop installs
Sigint ==
  /\ handler /\ fpc \in {"rep", "temp", "wait", "iter", "win", "hammering"}
  /\ sigint = "none"
  /\ do_exit' = TRUE
  /\ sigint' = IF fpc = "hammering" THEN "hammering" ELSE "between"
  /\ UNCHANGED <<cfgVars, kernelVars, configVars, tempVars, boundsVars, posVars, fpc, handler, timers, win, later_start,
                 dramVars, mem, pagemap, query, flipperVars>>

\* a detached thread of repetition_loop wakes up after test_max_time; all threads
\* sleep for the same duration, so the one that wakes is the oldest one asleep
Timeout ==
  /\ timers > 0 /\ fpc \in {"rep", "temp", "wait", "iter", "win", "hammering"}
  /\ do_exit' = TRUE
  /\ timers' = timers - 1
  /\ UNCHANGED <<cfgVars, kernelVars, configVars, tempVars, boundsVars, posVars, fpc, handler, win, sigint,
                 later_start, dramVars, mem, pagemap, query, flipperVars>>

\* a non-contiguous *_test returns into the loop over config.banks of find_flips
NcTestReturns(result) ==
  IF result
    THEN /\ fpc' = "iter"
         /\ bank_i' = bank_i + 1
         /\ cur_row' = {} /\ cur_last_row' = {} /\ second' = FALSE
         /\ UNCHANGED <<temp_i, rep, cur_offset>>
    ELSE IterationReturns

\* hammer() returns into a non-contiguous *_test
NcHammerReturns(result) ==
  IF ~result THEN NcTestReturns(FALSE)
  ELSE /\ fpc' = "win"
       /\ second' = (iter_algorithm = "fast" /\ ~second)
       /\ cur_row' = IF iter_algorithm = "default" THEN Add(cur_row, {0})
                     ELSE IF iter_algorithm = "fast" /\ ~second THEN cur_row
                     ELSE Add(cur_row, ToWord(hammer_rows - 1))
       /\ UNCHANGED <<temp_i, rep, bank_i, cur_last_row, cur_offset>>

\* NoncontiguousFlipFinder::find_flips: the head of the loop over config.banks
NcBankStart ==
  /\ fpc = "iter" /\ fkind = "noncontiguous"
  /\ IF bank_i >= Len(config_banks)
       THEN IterationReturns /\ UNCHANGED missing_rows
       ELSE LET bank == config_banks[bank_i + 1]
                bounds == get_row_bounds(bank, first_page, last_page)
            IN /\ cur_row' = bounds.first_row
               /\ cur_last_row' = bounds.last_row
               /\ missing_rows' = WithEntry(missing_rows, bank)
               /\ second' = FALSE
               /\ fpc' = "win"
               /\ UNCHANGED <<temp_i, rep, bank_i, cur_offset>>
  /\ UNCHANGED <<cfgVars, kernelVars, configVars, tempVars, first_page, last_page, banks, pages_per_bank, do_exit, handler,
                 timers, win, sigint, later_start, dramVars, mem, pagemap, query,
                 flipperVars>>

\* a non-contiguous *_test at the head of its loop, or fast_test before its
\* second call of hammer: the end of the loop, or hammer() up to flipper.hammer()
NcWindow ==
  /\ fpc = "win" /\ fkind = "noncontiguous"
  /\ LET bank == config_banks[bank_i + 1]
         more == ULeq(cur_row, Add(Sub(cur_last_row, ToWord(hammer_rows)), {0}))
         first_victim == IF second THEN Add(cur_row, {0}) ELSE cur_row
         last_victim == Add(first_victim, ToWord(hammer_rows - 1))
         addrs == NoncontiguousAddrs(bank, first_victim)
         a == FindLoop(addrs.aggs, ZeroVector(Len(addrs.aggs)))
         v == FindLoop(addrs.victims, ZeroVector(Len(addrs.victims)))
     IN IF ~second /\ ~more
          THEN /\ NcTestReturns(iter_algorithm # "debug")
               /\ UNCHANGED <<win, hphys, virt_aggs, virt_victims, found, ppc>>
        ELSE IF is_any_row_missing(bank, first_victim, last_victim)
          THEN /\ win' = Window("skipped", bank, first_victim)
               /\ NcHammerReturns(TRUE)
               /\ UNCHANGED <<hphys, virt_aggs, virt_victims, found, ppc>>
        ELSE /\ hphys' = addrs
             /\ virt_aggs' = a.virt
             /\ virt_victims' = v.virt
             /\ found' = (a.found /\ v.found)
             /\ ppc' = "ret_pages"
             /\ IF a.found /\ v.found
                  THEN /\ win' = Hammering(bank, first_victim, addrs.aggs)
                       /\ fpc' = "hammering"
                       /\ UNCHANGED posVars
                  ELSE /\ win' = Window("not_found", bank, first_victim)
                       /\ NcHammerReturns(not_found_result)
  /\ UNCHANGED <<cfgVars, kernelVars, configVars, tempVars, boundsVars, do_exit, handler, timers, sigint,
                 later_start, dramVars, mem, pagemap, query, flipVars>>

----------------------------------------------------------------------------
(* contiguous_flip_finder.cpp *)

\* config.test_min_rows, config.test_max_rows
test_min_rows == 1
test_max_rows == 0

banks_cnt == Pow2(Len(layout.h_fns))
hammer_pages == hammer_rows * pages_per_row

\* the loop of find_run over the pages of the page map in ascending order; prev
\* is -1 for UINT64_MAX, whose successor is 0
RECURSIVE FindRunLoop(_, _, _, _, _)
FindRunLoop(todo, prev, fp, lp, min_length) ==
  IF todo = {} THEN [ok |-> FALSE, first_page |-> fp, last_page |-> lp]
  ELSE LET page == Min(todo)
           nfp == IF page # prev + 1 THEN page ELSE fp
           nlp == IF page # prev + 1 THEN lp ELSE page
       IN IF page = prev + 1 /\ nlp > nfp /\ nlp - nfp > min_length
            THEN [ok |-> TRUE, first_page |-> nfp, last_page |-> nlp]
            ELSE FindRunLoop(todo \ {page}, page, nfp, nlp, min_length)

\* fp and lp are the values of the caller's uninitialized first_page, last_page
find_run(fp, lp, min_length) ==
  FindRunLoop({ToNat(k) : k \in DOMAIN pagemap}, -1, fp, lp, min_length)

find_run_fixed(fp, min_length) ==
  LET back == Max({ToNat(k) : k \in DOMAIN pagemap})
      run == {p \in fp..back : \A q \in fp..p : contains(q)}
      lp == IF run = {} THEN fp ELSE Max(run)
  IN [ok |-> lp - fp > min_length, last_page |-> lp]

find_first_page_in_row(r) ==
  UMin({phys([bank |-> ToWord(b), row |-> r, col |-> {}]) : b \in 0..(banks_cnt - 1)})

\* [ok, first_page, last_page, pages_per_bank, run]: pages_per_bank is a word, as
\* last_page - first_page + 1 is computed in std::size_t; run is what find_run found
determine_page_range(fp0, lp0) ==
  LET min_length == banks_cnt * test_min_rows * pages_per_row
      run == find_run(fp0, lp0, min_length)
      first_row == IF test_first_row = 0
                     THEN Add(DramOfPage(run.first_page).row, {0})
                     ELSE ToWord(test_first_row)
      first_page_phys == find_first_page_in_row(first_row)
      fp == phys_2_page(first_page_phys)
      fixed == find_run_fixed(fp, min_length)
      lp1 == IF test_last_row > 0
               THEN Min({fixed.last_page,
                         phys_2_page(Sub(find_first_page_in_row(ToWord(test_last_row + 1)),
                                         {0}))})
               ELSE fixed.last_page
      lp2 == IF test_max_rows > 0
               THEN Min({lp1,
                         phys_2_page(Sub(find_first_page_in_row(
                                           Add(DramOfPage(fp).row, ToWord(test_max_rows))),
                                         {0}))})
               ELSE lp1
      pages_cnt == Add(Sub(ToWord(lp2), ToWord(fp)), {0})
      per_bank == Shr(pages_cnt, Len(layout.h_fns))
      failed == [ok |-> FALSE, first_page |-> fp0, last_page |-> lp0, pages_per_bank |-> {},
                 run |-> run]
  IN IF test_first_row = 0 /\ ~run.ok THEN failed
     ELSE IF ~find_page(first_page_phys, {}).ret THEN failed
     ELSE IF ~fixed.ok THEN failed
     ELSE [ok |-> ~ULess(per_bank, ToWord(hammer_pages)), first_page |-> fp,
           last_page |-> lp2, pages_per_bank |-> per_bank, run |-> run]

\* ContiguousFlipFinder::banks after the loop of find_flips
BanksOf(fp, lp) ==
  LET mine(b) == Ascending({p \in fp..lp : ToNat(DramOfPage(p).bank) = b})
  IN [b \in {ToNat(DramOfPage(p).bank) : p \in fp..lp}
              \cap {config_banks[k] : k \in 1..Len(config_banks)} |->
        [n \in 1..Len(mine(b)) |-> page_2_phys(mine(b)[n])]]

\* the addresses hammer() takes from the pages of a bank from pages_begin on
ContiguousAddrs(pages, pages_begin) ==
  LET RowStart(k) == pages[pages_begin + (k - 1) * pages_per_row + 1]
  IN PatternAddrs([k \in 1..Len(hammer_pattern) |-> RowStart(k)])

BankOrderAll == Ascending(DOMAIN banks)

\* the banks the contiguous *_test walks, in the order of the map
BankOrder == IF iter_algorithm = "debug" THEN <<0>> ELSE Ascending(DOMAIN banks)

OffsetStepOneRow == pages_per_row

OffsetStep == IF iter_algorithm = "default" THEN pages_per_row
              ELSE hammer_pages - pages_per_row

\* a turn of the loop over the banks is done
CgTurnDone ==
  /\ fpc' = "win"
  /\ second' = FALSE
  /\ bank_i' = IF bank_i + 1 < Len(BankOrder) THEN bank_i + 1 ELSE 0
  /\ cur_offset' = IF bank_i + 1 < Len(BankOrder) THEN cur_offset
                   ELSE cur_offset + OffsetStep
  /\ UNCHANGED <<temp_i, rep, cur_row, cur_last_row>>

\* hammer() returns into a contiguous *_test
CgHammerReturns(result) ==
  IF iter_algorithm = "fast" /\ ~second
    THEN /\ fpc' = "win"
         /\ second' = TRUE
         /\ UNCHANGED <<temp_i, rep, bank_i, cur_row, cur_last_row, cur_offset>>
    ELSE IF result THEN CgTurnDone ELSE IterationReturns

\* a contiguous *_test at the head of a turn, or fast_test before its second
\* call of hammer: the end of the loop, or hammer() up to flipper.hammer()
CgWindow ==
  /\ fpc = "win" /\ fkind = "contiguous"
  /\ LET bank == BankOrder[bank_i + 1]
         pages == banks[bank]
         pages_begin == cur_offset + (IF second THEN pages_per_row ELSE 0)
         pages_end == pages_begin + hammer_pages
         addrs == ContiguousAddrs(pages, pages_begin)
         a == FindLoop(addrs.aggs, ZeroVector(Len(addrs.aggs)))
         v == FindLoop(addrs.victims, ZeroVector(Len(addrs.victims)))
     IN IF bank_i = 0 /\ ~second /\ cur_offset > pages_per_bank - hammer_pages
          THEN /\ IterationReturns
               /\ UNCHANGED <<win, hphys, virt_aggs, virt_victims, found, ppc>>
        ELSE IF bank \notin DOMAIN banks
          THEN /\ fpc' = "terminated"
               /\ UNCHANGED <<posVars, win, hphys, virt_aggs, virt_victims, found, ppc>>
        ELSE IF iter_algorithm = "default" /\ pages_end > Len(pages)
          THEN /\ IterationReturns
               /\ UNCHANGED <<win, hphys, virt_aggs, virt_victims, found, ppc>>
        ELSE IF second /\ pages_end > Len(pages)
          THEN /\ CgTurnDone
               /\ UNCHANGED <<win, hphys, virt_aggs, virt_victims, found, ppc>>
        ELSE IF do_exit
          THEN /\ win' = Window("exit", bank, ToWord(pages_begin))
               /\ CgHammerReturns(FALSE)
               /\ UNCHANGED <<hphys, virt_aggs, virt_victims, found, ppc>>
        ELSE /\ hphys' = addrs
             /\ virt_aggs' = a.virt
             /\ virt_victims' = v.virt
             /\ found' = (a.found /\ v.found)
             /\ ppc' = "ret_pages"
             /\ IF a.found /\ v.found
                  THEN /\ win' = Hammering(bank, ToWord(pages_begin), addrs.aggs)
                       /\ fpc' = "hammering"
                       /\ UNCHANGED posVars
                  ELSE /\ win' = Window("not_found", bank, ToWord(pages_begin))
                       /\ CgHammerReturns(not_found_result)
  /\ UNCHANGED <<cfgVars, kernelVars, configVars, tempVars, boundsVars, do_exit, handler, timers, sigint,
                 later_start, dramVars, mem, pagemap, query, flipVars>>

----------------------------------------------------------------------------
(* determine_page_range alone: the contiguous finder over RangeRows rows of  *)
(* two banks, of which the region owns all pages but a hole, with a first    *)
(* and a last row configured or not.                                         *)

RangeRows == 6
RangePages == 0..(2 * RangeRows * pages_per_row - 1)
RangeHoles == {{}, {0}, 0..8, {13}, 0..3 \cup {17}, {Max(RangePages) - 1}}
RangeFirstRows == {0, 1, 3}
RangeLastRows == {0, 1, 2, 4}

InitRange ==
  /\ layout = FinderLayout /\ ub = "wrap"
  /\ dmode = "idle" /\ din = {} /\ dmid = {} /\ dout = {} /\ dpc = "idle"
  /\ mem \in MemBases
  /\ pagemap \in {[k \in {ToWord(p) : p \in RangePages \ hole} |-> k] : hole \in RangeHoles}
  /\ hphys = [aggs |-> <<>>, victims |-> <<>>]
  /\ virt_aggs = <<>> /\ virt_victims = <<>> /\ found = FALSE
  /\ query = [phys |-> {}, virt |-> {}] /\ ppc = "idle"
  /\ IdleFlip /\ IdleKernel
  /\ fkind = "contiguous" /\ iter_algorithm = "default" /\ row_padding = 0
  /\ hammer_pattern \in FinderPatterns
  /\ experiment_repetitions = 1 /\ target_temps = <<>> /\ test_max_time = 0
  /\ config_banks = <<0, 1>>
  /\ test_first_row \in RangeFirstRows /\ test_last_row \in RangeLastRows
  /\ missing_rows = <<>> /\ first_page = 0 /\ last_page = 0
  /\ banks = <<>> /\ pages_per_bank = 0 /\ temp_i = 0 /\ rep = 0 /\ bank_i = 0
  /\ cur_row = {} /\ cur_last_row = {} /\ cur_offset = 0 /\ second = FALSE
  /\ fpc = "range" /\ do_exit = FALSE /\ handler = FALSE /\ timers = 0
  /\ win = NoWindow /\ sigint = "none" /\ later_start = FALSE
  /\ target_temperature = -1 /\ actual_temperature = 0 /\ elapsed = 0

\* the call of determine_page_range in find_flips; first_page and last_page of
\* find_flips are not initialized. What the call computed is kept in dout, the
\* pages per bank as the 64-bit word they are.
DeterminePageRange ==
  /\ fpc = "range"
  /\ \E garbage \in {0, 1} :
       LET range == determine_page_range(garbage, garbage)
       IN /\ first_page' = range.first_page
          /\ last_page' = range.last_page
          /\ dout' = range
          /\ fpc' = IF range.ok THEN "ranged" ELSE "done"
  /\ UNCHANGED <<layout, ub, dmode, din, dmid, dpc, pageVars, flipVars, cfgVars, tempVars,
                 kernelVars, configVars, missing_rows, banks, pages_per_bank, temp_i, rep,
                 bank_i, cur_row, cur_last_row, cur_offset, second, do_exit, handler,
                 timers, win, sigint, later_start>>

NextRange == DeterminePageRange

SpecRange == InitRange /\ [][NextRange]_vars

----------------------------------------------------------------------------
(* find_flips, and the end of hammer() *)

\* find_flips up to the first repetition or temperature of experiment_loop;
\* connected is what TemperatureController::connect returns
FindFlips ==
  /\ fpc = "start"
  /\ \E connected \in (IF target_temps = <<>> THEN {TRUE} ELSE BOOLEAN) :
       IF fkind = "noncontiguous"
         THEN /\ first_page' = get_page_bounds.first_page
              /\ last_page' = get_page_bounds.last_page
              /\ missing_rows' = find_missing_rows(get_page_bounds.first_page,
                                                   get_page_bounds.last_page)
              /\ EnterExperimentLoop(connected)
              /\ UNCHANGED <<banks, pages_per_bank>>
         ELSE \E garbage \in {0, 1} :
                LET range == determine_page_range(garbage, garbage)
                IN /\ first_page' = range.first_page
                   /\ last_page' = range.last_page
                   /\ pages_per_bank' = ToNat(range.pages_per_bank)
                   /\ IF range.ok
                        THEN /\ banks' = BanksOf(range.first_page, range.last_page)
                             /\ EnterExperimentLoop(connected)
                        ELSE /\ fpc' = "done"
                             /\ UNCHANGED <<banks, handler, temp_i, rep>>
                   /\ UNCHANGED missing_rows
  /\ UNCHANGED <<cfgVars, kernelVars, configVars, tempVars, bank_i, cur_row, cur_last_row, cur_offset, second, do_exit,
                 timers, win, sigint, later_start, dramVars, mem, pagemap, query,
                 flipperVars>>

\* hammer() from flipper.hammer() to its return, and the *_test up to the next
\* call of hammer(); actual_temp is the reading of the temperature check of
\* hammer_and_check, which ends the process outside target +- interval
HammerEnd ==
  /\ fpc = "hammering"
  /\ \E Fs \in [1..Len(aggressor_init) -> FinderDisturbances],
        actual_temp \in (IF aggressor_init = <<>> THEN {0} ELSE CheckReadings) :
       IF aggressor_init # <<>> /\ Excursion(actual_temp)
         THEN /\ ram' = Disturb(init_rows(ram, victim_init[1], aggressor_init[1]), Fs[1])
              /\ fpc' = "excursion"
              /\ steps' = <<begin_transaction>> \o PairSteps(1, 0, TRUE)
              /\ UNCHANGED <<pair_i, seen_flip, events, bitflips, hret, hpc, tested,
                             differed, win, posVars>>
         ELSE LET st == HammerLoop([ram |-> ram, events |-> events, seen_flip |-> FALSE,
                                    tested |-> <<>>, differed |-> <<>>,
                                    steps |-> <<begin_transaction>>], 1, Fs)
              IN /\ ram' = st.ram
                 /\ steps' = Append(st.steps, commit)
                 /\ events' = st.events
                 /\ bitflips' = Len(st.events)
                 /\ seen_flip' = st.seen_flip
                 /\ pair_i' = Len(aggressor_init)
                 /\ hret' = st.seen_flip
                 /\ hpc' = "ret"
                 /\ tested' = st.tested
                 /\ differed' = st.differed
                 /\ win' = [win EXCEPT !.outcome = "hammered"]
                 /\ IF fkind = "noncontiguous" THEN NcHammerReturns(~do_exit)
                    ELSE CgHammerReturns(TRUE)
  /\ UNCHANGED <<cfgVars, kernelVars, configVars, tempVars, boundsVars, do_exit, handler, timers, sigint,
                 later_start, dramVars, mem, pagemap, query, hphys, virt_aggs,
                 virt_victims, found, ppc, victim_init, aggressor_init>>

NextFinder ==
  \/ FindFlips \/ TempStart \/ TempPoll \/ TempWait \/ RepetitionStart
  \/ NcBankStart \/ NcWindow \/ CgWindow \/ HammerEnd
  \/ Sigint \/ Timeout

SpecFinder == InitFinder /\ [][NextFinder]_vars

----------------------------------------------------------------------------
(* bit_flipper.cpp: the hammer kernels *)

Low32(w) == {b \in w : b < 32}

\* an imm32 as the 64-bit register receives it
SignExtend32(w) == IF 31 \in w THEN Low32(w) \cup (32..(WordBits - 1)) ELSE Low32(w)

to_byte_array_msb_first(value, size) ==
  [i \in 1..size |-> ToNat(And(Shr(value, 8 * (size - i)), IntLowMask(8)))]

\* operators.h, to_byte_array: the bytes of value, least significant first
to_byte_array(value, size) ==
  [i \in 1..size |-> ToNat(And(Shr(value, 8 * (i - 1)), IntLowMask(8)))]

Repeat(x, n) == [i \in 1..n |-> x]

\* the byte arrays of hammer_aggs_machinecode without USE_ASMJIT
\* f3 0f 1e fa, 55, 48 89 e5, 48 c7 c3
function_start == <<243, 15, 30, 250, 85, 72, 137, 229, 72, 199, 195>>
\* 48 b8
mov_agg_addr == <<72, 184>>
\* 48 8b 08
hammer_agg == <<72, 139, 8>>
\* 90
nop == 144
\* 0f ae 38, or 66 0f ae 38 with __CLFLUSHOPT__
flush_agg == IF clflushopt THEN <<102, 15, 174, 56>> ELSE <<15, 174, 56>>
\* 0f ae f0, 48 ff cb, 0f 85
func_end_start == <<15, 174, 240, 72, 255, 203, 15, 133>>
\* 5d, c3
func_end_end == <<93, 195>>

\* sizeof(virt_aggs[0]) and sizeof(uint32_t)
agg_addr_size == 8
imm32_size == 4

access_nop_flush == hammer_agg \o Repeat(nop, nop_count) \o flush_agg

\* the loop over virt_aggs that appends one block per aggressor
RECURSIVE EmitBlocks(_)
EmitBlocks(k) ==
  IF k > Len(virt_aggs) THEN <<>>
  ELSE mov_agg_addr \o to_byte_array(virt_aggs[k], agg_addr_size) \o access_nop_flush
       \o EmitBlocks(k + 1)

loop_size == Len(mov_agg_addr) + agg_addr_size + Len(access_nop_flush)

func_end_till_offsetparameter_size == (Len(func_end_start) + imm32_size) - 1

\* std::numeric_limits<uint32_t>::max() - (loop_size * aggressor_rows + ...), on
\* uint32_t; the product stays far below 2^32 here
jump_offset ==
  Low32(Sub(IntLowMask(32),
            ToWord(loop_size * aggressor_rows + func_end_till_offsetparameter_size)))

\* the vector `function` of the build without USE_ASMJIT
machinecode_bytes ==
  function_start \o to_byte_array(Low32(hammer_count), imm32_size)
  \o EmitBlocks(1)
  \o func_end_start \o to_byte_array(jump_offset, imm32_size)
  \o func_end_end

\* an instruction: op, immediate operand, jump target
Ins(op, imm, target) == [op |-> op, imm |-> imm, target |-> target]

\* the calls of the assembler of the USE_ASMJIT build for one aggressor; the
\* guard of the flush is spelled __CLFLUSHOPF__, a macro no build defines
AsmjitBlock(agg) ==
  <<Ins("mov_rax", agg, "")>> \o <<Ins("mov_rcx_rax", {}, "")>>
  \o Repeat(Ins("nop", {}, ""), nop_count)
  \o <<Ins("clflush", {}, ""), Ins("lfence", {}, "")>>

RECURSIVE AsmjitBlocks(_)
AsmjitBlocks(k) ==
  IF k > Len(virt_aggs) THEN <<>> ELSE AsmjitBlock(virt_aggs[k]) \o AsmjitBlocks(k + 1)

\* the calls of the assembler of the USE_ASMJIT build, in order
machinecode_asmjit ==
  <<Ins("mov_rbx", hammer_count, ""), Ins("bind", {}, "for_begin"),
    Ins("cmp_rbx_0", {}, ""), Ins("jle", {}, "for_end")>>
  \o AsmjitBlocks(1)
  \o <<Ins("mfence", {}, ""), Ins("dec_rbx", {}, ""), Ins("jmp", {}, "for_begin"),
       Ins("bind", {}, "for_end"), Ins("ret", {}, "")>>

\* the access number pos of one turn of the loop of hammer_aggs_assembly
\* without __CLFLUSHOPT__: every aggressor is flushed right after its read
assembly_access(pos) ==
  [op |-> IF pos % 2 = 0 THEN "read" ELSE "clflush", agg |-> virt_aggs[(pos \div 2) + 1]]

\* the access number pos of one turn of the loop of hammer_aggs_default: its
\* first inner loop reads the aggressors, its second flushes them
default_access(pos) ==
  IF pos < Len(virt_aggs)
    THEN [op |-> "read", agg |-> virt_aggs[pos + 1]]
    ELSE [op |-> "clflush", agg |-> virt_aggs[pos - Len(virt_aggs) + 1]]

\* the size little-endian bytes of bs from position p on, as a word
FromBytes(bs, p, size) == UNION {Shl(ToWord(bs[p + i]), 8 * i) : i \in 0..(size - 1)}

HasAt(bs, p, pat) ==
  /\ p + Len(pat) - 1 <= Len(bs)
  /\ \A i \in 1..Len(pat) : bs[p + i - 1] = pat[i]

\* an instruction of the byte vector: op, immediate, jump target and own
\* position, both as byte offsets from the start of the function
InsAt(op, imm, target, at) == [op |-> op, imm |-> imm, target |-> target, at |-> at]

\* the x86-64 instructions the bytes bs encode from position p on; no two of
\* the encodings begin alike
RECURSIVE Decode(_, _)
Decode(bs, p) ==
  LET plain(op, size) == <<InsAt(op, {}, {}, p - 1)>> \o Decode(bs, p + size)
  IN IF p > Len(bs) THEN <<>>
     ELSE CASE HasAt(bs, p, <<243, 15, 30, 250>>) -> plain("endbr64", 4)
            [] HasAt(bs, p, <<102, 15, 174, 56>>) -> plain("clflushopt", 4)
            [] HasAt(bs, p, <<72, 199, 195>>) /\ p + 6 <= Len(bs) ->
                 <<InsAt("mov_rbx", SignExtend32(FromBytes(bs, p + 3, 4)), {}, p - 1)>>
                 \o Decode(bs, p + 7)
            [] HasAt(bs, p, <<72, 184>>) /\ p + 9 <= Len(bs) ->
                 <<InsAt("mov_rax", FromBytes(bs, p + 2, 8), {}, p - 1)>>
                 \o Decode(bs, p + 10)
            [] HasAt(bs, p, <<72, 139, 8>>) -> plain("mov_rcx_rax", 3)
            [] HasAt(bs, p, <<72, 137, 229>>) -> plain("mov_rbp_rsp", 3)
            [] HasAt(bs, p, <<72, 255, 203>>) -> plain("dec_rbx", 3)
            [] HasAt(bs, p, <<15, 174, 56>>) -> plain("clflush", 3)
            [] HasAt(bs, p, <<15, 174, 240>>) -> plain("mfence", 3)
            [] HasAt(bs, p, <<15, 174, 232>>) -> plain("lfence", 3)
            [] HasAt(bs, p, <<15, 133>>) /\ p + 5 <= Len(bs) ->
                 <<InsAt("jnz", {},
                         Add(ToWord(p + 5), SignExtend32(FromBytes(bs, p + 2, 4))), p - 1)>>
                 \o Decode(bs, p + 6)
            [] bs[p] = 85 -> plain("push_rbp", 1)
            [] bs[p] = 93 -> plain("pop_rbp", 1)
            [] bs[p] = 144 -> plain("nop", 1)
            [] bs[p] = 195 -> plain("ret", 1)
            [] OTHER -> <<InsAt("undecoded", {}, {}, p - 1)>>

\* the turns of the loop of the function built without USE_ASMJIT, by block:
\* rbx is decremented after the blocks and the jnz is taken while it is not 0,
\* so the blocks from the target of the jnz on run rbx times, 2^64 times for
\* rbx = 0, and the blocks before it once; a target that is no block of the
\* function leaves the function after the first turn
BytesTurns ==
  LET d == Decode(function, 1)
      At(op) == {i \in 1..Len(d) : d[i].op = op}
      rbx == d[CHOOSE i \in At("mov_rbx") : TRUE].imm
      target == d[CHOOSE i \in At("jnz") : TRUE].target
      body == At("mov_rax") \cup At("mfence")
      inside == \E i \in body : target = ToWord(d[i].at)
      block(k) == CHOOSE i \in At("mov_rax") :
                    Cardinality({j \in At("mov_rax") : j <= i}) = k
  IN [inside |-> inside,
      turns |-> [k \in 1..Len(virt_aggs) |->
                   IF inside /\ ULeq(target, ToWord(d[block(k)].at))
                     THEN (IF rbx = {} THEN {WordBits} ELSE rbx)
                     ELSE {0}]]

\* the turns of the loop of the USE_ASMJIT build: cmp rbx, 0 and jle for_end
\* stand before the blocks, and jle compares signed
AsmjitTurns ==
  LET rbx == function[1].imm
  IN [inside |-> TRUE,
      turns |-> [k \in 1..Len(virt_aggs) |->
                   IF (WordBits - 1) \in rbx THEN {} ELSE rbx]]

----------------------------------------------------------------------------
(* The kernels are checked on lists of up to MaxAggs aggressors, nop counts  *)
(* up to MaxNops and hammer counts that include values of 2^31 and above.    *)
(* config.aggressor_rows is the length of the list, as in the flip finders,  *)
(* or FileRows, as in the validator, whose list comes from a file.           *)

MaxAggs == 2
MaxNops == 2
MaxCount == 2
FileRows == 1

AggAddrs == {{12, 30}, {13, 30, 46}}

AggLists == UNION {[1..n -> AggAddrs] : n \in 0..MaxAggs}

InitKernel ==
  /\ IdleDram /\ IdleFlip /\ IdleFinder
  /\ mem = {} /\ pagemap = <<>> /\ hphys = [aggs |-> <<>>, victims |-> <<>>]
  /\ virt_victims = <<>> /\ found = FALSE
  /\ query = [phys |-> {}, virt |-> {}] /\ ppc = "idle"
  /\ virt_aggs \in AggLists
  /\ hammer_algorithm \in {"machinecode", "default"}
  /\ use_asmjit \in (IF hammer_algorithm = "machinecode" THEN BOOLEAN ELSE {FALSE})
  /\ clflushopt \in (IF hammer_algorithm = "machinecode" THEN BOOLEAN ELSE {FALSE})
  /\ hammer_count \in {ToWord(c) : c \in 0..MaxCount}
                      \cup (IF hammer_algorithm = "machinecode"
                            THEN {{31}, {0, 32}} ELSE {})
  /\ nop_count \in (IF hammer_algorithm = "machinecode" THEN 0..MaxNops ELSE {0})
  /\ aggressor_rows \in {Len(virt_aggs), FileRows}
  /\ function = <<>> /\ accesses = <<>> /\ iter_i = 0 /\ iter_pos = 0 /\ turns = <<>>
  /\ kpc = "call"
  /\ ini = <<>> /\ config = <<>> /\ cpc = "idle"

\* hammer_aggs_machinecode up to the call of the emitted function
MachinecodeEmit ==
  /\ kpc = "call" /\ hammer_algorithm = "machinecode"
  /\ function' = IF use_asmjit THEN machinecode_asmjit ELSE machinecode_bytes
  /\ kpc' = "emitted"
  /\ UNCHANGED <<hammer_algorithm, use_asmjit, clflushopt, hammer_count, nop_count,
                 aggressor_rows, accesses, iter_i, iter_pos, turns,
                 dramVars, pageVars, flipVars, finderVars, configVars>>

\* hammer_aggs_machinecode from fn() on: the emitted function runs, which writes
\* no variable of the program, and is released. A jnz out of the function runs
\* whatever lies there: the process faults, or comes back and returns.
MachinecodeRun ==
  /\ kpc = "emitted"
  /\ LET run == IF use_asmjit THEN AsmjitTurns ELSE BytesTurns
     IN /\ turns' = run.turns
        /\ IF run.inside
             THEN kpc' = "ret" /\ function' = <<>>
             ELSE \/ kpc' = "fault" /\ UNCHANGED function
                  \/ kpc' = "ret" /\ function' = <<>>
  /\ UNCHANGED <<hammer_algorithm, use_asmjit, clflushopt, hammer_count, nop_count,
                 aggressor_rows, accesses, iter_i, iter_pos,
                 dramVars, pageVars, flipVars, finderVars, configVars>>

\* hammer_aggs_default: one access of its loops, or a turn of the outer loop
\* over an empty list
DefaultStep ==
  /\ kpc \in {"call", "loop"} /\ hammer_algorithm = "default"
  /\ iter_i < ToNat(hammer_count)
  /\ kpc' = "loop"
  /\ IF virt_aggs = <<>>
       THEN /\ iter_i' = iter_i + 1
            /\ UNCHANGED <<accesses, iter_pos>>
       ELSE /\ accesses' = Append(accesses, default_access(iter_pos))
            /\ IF iter_pos + 1 = 2 * Len(virt_aggs)
                 THEN iter_i' = iter_i + 1 /\ iter_pos' = 0
                 ELSE iter_pos' = iter_pos + 1 /\ UNCHANGED iter_i
  /\ UNCHANGED <<hammer_algorithm, use_asmjit, clflushopt, hammer_count, nop_count,
                 aggressor_rows, function, turns, dramVars, pageVars, flipVars, finderVars,
                 configVars>>

\* hammer_aggs_default returns
DefaultReturn ==
  /\ kpc \in {"call", "loop"} /\ hammer_algorithm = "default"
  /\ iter_i >= ToNat(hammer_count)
  /\ kpc' = "ret"
  /\ UNCHANGED <<hammer_algorithm, use_asmjit, clflushopt, hammer_count, nop_count,
                 aggressor_rows, function, accesses, iter_i, iter_pos, turns,
                 dramVars, pageVars, flipVars, finderVars, configVars>>

NextKernel == MachinecodeEmit \/ MachinecodeRun \/ DefaultStep \/ DefaultReturn

SpecKernel == InitKernel /\ [][NextKernel]_vars

----------------------------------------------------------------------------
(* config.cpp *)

\* undefined for the zero word; the model never applies it to one
count_leading_zero_bits(value) == WordBits - 1 - Max(value)

verify_masks(masks) ==
  \A i \in 1..Len(masks) :
    count_leading_zero_bits(masks[i]) + count_one_bits(masks[i])
      + count_trailing_zero_bits(masks[i]) = WordBits

CountIn(seq, x) == Cardinality({i \in 1..Len(seq) : seq[i] = x})

\* the template repeated until it holds at least `requested` aggressors
RECURSIVE RepeatTemplate(_, _, _)
RepeatTemplate(description, bits, requested) ==
  IF CountIn(bits, TRUE) >= requested THEN bits
  ELSE RepeatTemplate(description,
                      bits \o [i \in 1..Len(description) |-> description[i] = "a"],
                      requested)

NoTrailingVictim(bits) == bits

\* a victim is added at the end if the pattern does not end in a victim
TrailingVictim(bits) ==
  IF bits = <<>> \/ bits[Len(bits)] THEN Append(bits, FALSE) ELSE bits

\* HammerPattern::HammerPattern(description, aggressors_rows) for a description
\* of v's and a's: the bits, and the value it leaves in its reference argument
HammerPattern(description, aggressors_rows) ==
  LET bits == TrailingVictim(RepeatTemplate(description, <<>>, aggressors_rows))
  IN [bits |-> bits, aggressors_rows |-> CountIn(bits, TRUE)]

\* read_values: the key hammer_pattern, if the ini file has it, with 0 read as v
\* and 1 as a
read_values(c, key) ==
  IF key = <<>> THEN c
  ELSE LET pattern == [i \in 1..Len(key) |->
                         IF key[i] = "0" THEN "v" ELSE IF key[i] = "1" THEN "a" ELSE key[i]]
           hp == HammerPattern(pattern, c.aggressor_rows)
       IN [c EXCEPT !.description = pattern, !.hammer_pattern = hp.bits,
                    !.aggressor_rows = hp.aggressors_rows]

test_max_rows_lb_single(c) == Add(c.test_min_rows, Low32(c.row_padding))

\* test_min_rows + row_padding * 2: the product on uint32_t, the sum on uint64_t
test_max_rows_lb(c) == Add(c.test_min_rows, Low32(Shl(c.row_padding, 1)))

\* verify_values: [ok, config], ok FALSE where it ends in log_error_and_exit
verify_values(c) ==
  LET with_banks ==
        IF c.banks = <<>> THEN [c EXCEPT !.banks = [i \in 1..banks_cnt |-> i - 1]] ELSE c
      with_rows ==
        IF with_banks.test_max_rows # {}
           /\ ULess(with_banks.test_max_rows, test_max_rows_lb(with_banks))
          THEN [with_banks EXCEPT !.test_max_rows = test_max_rows_lb(with_banks)]
          ELSE with_banks
      hp == HammerPattern(with_rows.description, with_rows.aggressor_rows)
      with_pattern ==
        IF with_rows.hammer_pattern = <<>>
          THEN [with_rows EXCEPT !.hammer_pattern = hp.bits,
                                 !.aggressor_rows = hp.aggressors_rows]
          ELSE with_rows
      with_init ==
        IF with_pattern.aggressor_init = <<>>
          THEN [with_pattern EXCEPT
                  !.aggressor_init = [i \in 1..Len(with_pattern.victim_init) |->
                                        Not(with_pattern.victim_init[i])]]
          ELSE with_pattern
  IN IF ~verify_masks(layout.row_masks) \/ ~verify_masks(layout.col_masks)
       THEN [ok |-> FALSE, config |-> c]
     ELSE IF \E i \in 1..Len(c.banks) : c.banks[i] >= banks_cnt
       THEN [ok |-> FALSE, config |-> c]
     ELSE IF Len(with_init.victim_init) # Len(with_init.aggressor_init)
       THEN [ok |-> FALSE, config |-> with_init]
     ELSE [ok |-> TRUE, config |-> with_init]

----------------------------------------------------------------------------
(* Config::read is checked on configurations that differ from a small one in *)
(* one respect: the row limits, the hammer pattern and aggressor count, the   *)
(* banks, the init values, or the masks of the layout.                        *)

MaxTestRows == 8
MaxAggressorRows == 4

SmallConfig ==
  [banks |-> <<>>, test_min_rows |-> ToWord(1), test_max_rows |-> {},
   row_padding |-> ToWord(1), aggressor_rows |-> 2, description |-> <<"v", "a">>,
   hammer_pattern |-> <<>>, victim_init |-> <<{}, BitPos>>,
   aggressor_init |-> <<BitPos, {}>>]

RowConfigs ==
  {[SmallConfig EXCEPT !.test_min_rows = mn, !.test_max_rows = ToWord(mx),
                       !.row_padding = pd] :
     mn \in {ToWord(1), ToWord(3), BitPos},
     mx \in 0..MaxTestRows,
     pd \in {{}, ToWord(1), ToWord(3), {IntBits - 1}, IntLowMask(IntBits)}}

IniPatterns ==
  {<<>>, <<"v", "a">>, <<"0", "1">>, <<"a", "v">>, <<"a">>, <<"v", "a", "a">>,
   <<"v", "a", "v", "v">>}

PatternConfigs == {[SmallConfig EXCEPT !.aggressor_rows = n] : n \in 0..MaxAggressorRows}

BankConfigs == {[SmallConfig EXCEPT !.banks = b] : b \in {<<>>, <<0>>, <<1, 0>>, <<2>>}}

InitConfigs ==
  {[SmallConfig EXCEPT !.victim_init = v, !.aggressor_init = a] :
     v \in {<<{}>>, <<{}, BitPos>>}, a \in {<<>>, <<BitPos>>, <<BitPos, {}>>}}

SplitMaskLayouts ==
  {[FinderLayout EXCEPT !.row_masks = <<{14, 16}>>],
   [FinderLayout EXCEPT !.col_masks = <<{0, 1, 12}>>]}

InitConfig ==
  /\ ub = "wrap" /\ dmode = "idle" /\ din = {} /\ dmid = {} /\ dout = {} /\ dpc = "idle"
  /\ IdlePages /\ IdleFlip /\ IdleFinder
  /\ hammer_algorithm = "idle" /\ use_asmjit = FALSE /\ clflushopt = FALSE
  /\ hammer_count = {} /\ nop_count = 0 /\ aggressor_rows = 0
  /\ function = <<>> /\ accesses = <<>> /\ iter_i = 0 /\ iter_pos = 0 /\ turns = <<>>
  /\ kpc = "idle"
  /\ cpc = "parsed"
  /\ \/ layout = FinderLayout /\ ini = <<>> /\ config \in RowConfigs \cup InitConfigs
     \/ layout = FinderLayout /\ ini \in IniPatterns /\ config \in PatternConfigs
     \/ layout \in {FinderLayout, DefaultLayout} /\ ini = <<>> /\ config \in BankConfigs
     \/ layout \in SplitMaskLayouts /\ ini = <<>> /\ config = SmallConfig

\* Config::read from read_values on
ReadConfig ==
  /\ cpc = "parsed"
  /\ LET verified == verify_values(read_values(config, ini))
     IN /\ config' = verified.config
        /\ cpc' = IF verified.ok THEN "verified" ELSE "error"
  /\ UNCHANGED <<ini, dramVars, pageVars, flipVars, finderVars, kernelVars>>

NextConfig == ReadConfig

SpecConfig == InitConfig /\ [][NextConfig]_vars

----------------------------------------------------------------------------
(* The claims about the flipper *)

\* a scan has run: ram is the memory it read, LastInit the victim_init it compared with
Scanned == hpc \in {"loop", "ret"} /\ pair_i >= 1

LastInit == victim_init[pair_i]

\* <<v, j, k>>: the word k of the page j of the row of victim v; the words that
\* hammering can have changed, and the first and last word of each page
WatchedWords ==
  UNION {{<<v, j, k>> :
            k \in {0, WordsPerPage - 1}
                  \cup DOMAIN ram[Add(virt_victims[v], ToWord(j * page_size))].diff} :
         v \in 1..Len(virt_victims), j \in 0..(pages_per_row - 1)}

WordAt(t) == Read(ram, Add(virt_victims[t[1]], ToWord(t[2] * page_size)), t[3])

\* the events whose byte address lies in the word t
EventsOfWord(t) ==
  {e \in 1..Len(events) :
     Shr(events[e].victim_phys, Log2(WordBytes))
       = Shr(Add(hphys.victims[t[1]], ToWord(t[2] * page_size + t[3] * WordBytes)),
             Log2(WordBytes))}

\* the bit of its word an event names by byte address and bit in the byte
BitOfEvent(e) ==
  ToNat(And(events[e].victim_phys, IntLowMask(Log2(WordBytes)))) * 8 + events[e].victim_bit

\* C3: after the scan of hammer_and_check, every victim word w that differs from
\* victim_init has exactly popcount(w XOR victim_init) flip events, one for each
\* differing bit, each with direction (w >> bit) & 1; a word equal to victim_init
\* has none, and every event belongs to a differing victim word.
C3_Scan ==
  Scanned =>
    /\ \A t \in WatchedWords :
         /\ Cardinality(EventsOfWord(t)) = count_one_bits(Xor(WordAt(t), LastInit))
         /\ {BitOfEvent(e) : e \in EventsOfWord(t)} = Xor(WordAt(t), LastInit)
         /\ \A e \in EventsOfWord(t) :
              events[e].flips_to = (IF BitOfEvent(e) \in WordAt(t) THEN 1 ELSE 0)
    /\ \A e \in 1..Len(events) :
         \E t \in WatchedWords : e \in EventsOfWord(t) /\ WordAt(t) # LastInit
    /\ bitflips = Len(events)

\* victim_init 0x00, the last word of a victim row read back as 0x81, and a word
\* of a row initialised to all ones read back with bit 63 cleared
C3_Witness ==
  /\ Scanned
  /\ \E t \in WatchedWords :
       /\ t[2] = pages_per_row - 1 /\ t[3] = WordsPerPage - 1
       /\ LastInit = {} /\ WordAt(t) = {0, 7}
       /\ \E e, f \in EventsOfWord(t) :
            /\ events[e].victim_bit = 0 /\ events[e].flips_to = 1
            /\ events[f].victim_bit = 7 /\ events[f].flips_to = 1
  /\ bitflips = 2

\* C4: hammer() returns true iff for at least one pair a victim word read back
\* differed from victim_init, and it has called hammer_and_check for every pair,
\* in list order.
C4_Hammer ==
  hpc = "ret" =>
    /\ hret <=> \E n \in 1..Len(differed) : differed[n]
    /\ tested = [n \in 1..Len(aggressor_init) |-> n]
    /\ Len(differed) = Len(aggressor_init)

\* the first pair flipped a bit, the second pair was hammered all the same and
\* flipped none
C4_Witness ==
  /\ hpc = "ret" /\ hret
  /\ tested = <<1, 2>>
  /\ differed = <<TRUE, FALSE>>

----------------------------------------------------------------------------
(* The flip finders *)

\* hammer() has got as far as flipper.hammer() for the last window
WindowHammered == win.outcome \in {"hammering", "hammered"}

\* a row of the window's bank is missing within row_padding of the window, the
\* bounds taken as integers
MissingInPaddedRange ==
  \E r \in missing_rows[win.bank] :
    /\ ToNat(win.first) - row_padding <= ToNat(r)
    /\ ToNat(r) <= ToNat(win.first) + hammer_rows - 1 + row_padding

\* C5 as stated: the non-contiguous finder hammers a window only if no row within
\* row_padding of it is in the missing-row set of the bank, for every
\* first_victim.
C5_AsStated ==
  (fkind = "noncontiguous" /\ WindowHammered) => ~MissingInPaddedRange

\* C5 away from the low rows: for first_victim >= row_padding a window is skipped
\* iff a row within row_padding of it is missing
C5_FromPaddingOn ==
  (fkind = "noncontiguous" /\ win.outcome # "none" /\ ToNat(win.first) >= row_padding) =>
    (MissingInPaddedRange <=> win.outcome = "skipped")

\* C6 as stated: no window is hammered whose call of hammer() began after do_exit
\* had been set in the running iteration.
C6_AsStated == WindowHammered => ~win.exit_at_call

\* C6 for the contiguous finder alone
C6_Contiguous == (fkind = "contiguous" /\ WindowHammered) => ~win.exit_at_call

\* C7 as stated: after a SIGINT that arrived while a window was hammered, no
\* further repetition and no further target temperature is begun.
C7_AsStated == ~later_start

\* C8 as stated: when find_pages fails for a window, no flip event is emitted and
\* the finder goes on to its next call of hammer() in the same repetition.
C8_AsStated ==
  [][(win' # win /\ win'.outcome = "not_found") =>
       (events' = events /\ fpc' = "win" /\ rep' = rep)]_vars

\* C8 amended: when find_pages fails for a window of the non-contiguous finder,
\* the memory is not written, no flip event is emitted, hammer() returns false and
\* the iteration ends there: no further window and no further bank is tried in
\* this repetition. In the contiguous finder find_pages does not fail, since all
\* pages of the banks lie in one run of owned pages.
C8_NotFound ==
  [][(win' # win /\ win'.outcome = "not_found") =>
       /\ fkind = "noncontiguous"
       /\ events' = events /\ ram' = ram
       /\ fpc' = "rep" /\ rep' = rep + 1]_vars

\* find_pages failed for a window of bank 0 in the first repetition, and the
\* repetition ended without bank 1 being looked at
C8_Witness ==
  /\ win.outcome = "not_found" /\ win.bank = 0 /\ win.rep = 0
  /\ fpc = "rep" /\ rep = 1
  /\ 1 \notin DOMAIN missing_rows

----------------------------------------------------------------------------
(* The flip event *)

\* C11 as stated: the bit index of an event is the position, 0..63, of the
\* differing bit within its 64-bit word
C11_AsStated ==
  Scanned =>
    \A e \in 1..Len(events) :
      \E t \in WatchedWords :
        e \in EventsOfWord(t) /\ events[e].victim_bit \in Xor(WordAt(t), LastInit)

\* C11: each flip event names the flipped bit by the physical address of its
\* byte, phys.victims[v] + flip_offset_bytes + bit / 8, and by the bit index
\* bit % 8 in 0..7 within that byte, together with its direction; byte and bit
\* index taken together give the position 0..63 of a differing bit of the word at
\* flip_offset_bytes, and no two events name the same bit.
C11_ByteAndBit ==
  Scanned =>
    \A e \in 1..Len(events) :
      /\ events[e].victim_bit \in 0..7
      /\ events[e].flips_to \in {0, 1}
      /\ \E t \in WatchedWords :
           /\ e \in EventsOfWord(t)
           /\ BitOfEvent(e) \in Xor(WordAt(t), LastInit)
           /\ events[e].victim_phys
                = Add(hphys.victims[t[1]],
                      ToWord(t[2] * page_size + t[3] * WordBytes + BitOfEvent(e) \div 8))
           /\ events[e].flips_to = (IF BitOfEvent(e) \in WordAt(t) THEN 1 ELSE 0)
      /\ \A f \in 1..Len(events) :
           (events[f].victim_phys = events[e].victim_phys
              /\ events[f].victim_bit = events[e].victim_bit) => f = e

\* bit 63 of a word initialised to all ones read back as 0: the event names the
\* bit 7 of the byte 7 of the word
C11_Witness ==
  /\ Scanned
  /\ \E e \in 1..Len(events) :
       /\ events[e].victim_bit = 7 /\ events[e].flips_to = 0
       /\ BitOfEvent(e) = 63
       /\ And(events[e].victim_phys, IntLowMask(Log2(WordBytes))) = ToWord(7)

----------------------------------------------------------------------------
(* The default layout *)

Addr12345000 == {12, 14, 18, 20, 21, 25, 28}
Addr12366000 == {13, 14, 17, 18, 20, 21, 25, 28}

OnDefaultLayout == dpc = "out" /\ layout = DefaultLayout

\* C12 as stated: DRAMAddr(0x12345000) is (bank 9, row 0x48d, col 0) and
\* DRAMAddr(9, 0x48d, 0).phys() is 0x12345000
C12_AsStated ==
  OnDefaultLayout =>
    /\ (dmode = "phys" /\ din.p = Addr12345000)
         => dmid = [bank |-> ToWord(9), row |-> ExampleRow, col |-> {}]
    /\ (dmode = "triple" /\ din = [bank |-> ToWord(9), row |-> ExampleRow, col |-> {}])
         => dmid = Addr12345000

\* C12: with the default layout DRAMAddr(0x12345000) is (bank 24, row 0x48d,
\* col 0x1000) and DRAMAddr(24, 0x48d, 0x1000).phys() is 0x12345000, while
\* DRAMAddr(9, 0x48d, 0).phys() is 0x12366000, an address that DRAMAddr maps back
\* to (9, 0x48d, 0).
C12_DefaultLayout ==
  OnDefaultLayout =>
    /\ (dmode = "phys" /\ din.p = Addr12345000)
         => /\ dmid = [bank |-> ToWord(24), row |-> ExampleRow, col |-> {12}]
            /\ dout = Addr12345000
    /\ (dmode = "triple" /\ din = [bank |-> ToWord(24), row |-> ExampleRow, col |-> {12}])
         => /\ dmid = Addr12345000
            /\ dout = din
    /\ (dmode = "triple" /\ din = [bank |-> ToWord(9), row |-> ExampleRow, col |-> {}])
         => /\ dmid = Addr12366000
            /\ dout = din

\* 0x12345000 was translated to (24, 0x48d, 0x1000) and back
C12_Witness ==
  /\ OnDefaultLayout /\ dmode = "phys" /\ din.p = Addr12345000
  /\ ToNat(dmid.bank) = 24 /\ ToNat(dmid.row) = 1165 /\ ToNat(dmid.col) = 4096
  /\ dout = din.p

----------------------------------------------------------------------------
(* The temperature loop *)

WaitTarget == target_temps[temp_i + 1]

\* the reading lies strictly inside target +- interval
WithinInterval(actual, target) == target - interval < actual /\ actual < target + interval

\* a step that is a turn of the wait loop, and one that leaves the loop
WaitTurn == fpc = "wait" /\ fpc' = "wait" /\ elapsed' = elapsed + 1

WaitOver == fpc = "wait" /\ fpc' # "wait"

\* C13 as stated: the wait loop turns only while the reading is outside
\* target +- interval, the timeout has not elapsed and do_exit is not set; the
\* repetitions follow only a reading within the interval
C13_AsStated ==
  [][/\ WaitTurn => /\ ~WithinInterval(actual_temperature, WaitTarget)
                    /\ elapsed < timeout
                    /\ ~do_exit
     /\ WaitOver => /\ \/ WithinInterval(actual_temperature, WaitTarget)
                       \/ elapsed >= timeout
                       \/ do_exit
                    /\ fpc' = "rep" => WithinInterval(actual_temperature, WaitTarget)]_vars

\* C13: the wait loop of a target temperature turns only while the reading
\* differs from the target, the timeout has not elapsed and do_exit is not set, and
\* it ends as soon as one of the three fails. When it has ended, a set do_exit
\* ends the process successfully, whatever the reading; otherwise a reading that
\* differs from the target, however close, is the fatal timeout; otherwise the
\* repetitions of that temperature begin. On both exits the controller is set to 20.
C13_WaitLoop ==
  [][/\ WaitTurn => /\ actual_temperature # WaitTarget
                    /\ elapsed < timeout
                    /\ ~do_exit
     /\ (fpc = "wait" /\ actual_temperature # WaitTarget /\ elapsed < timeout /\ ~do_exit)
          => fpc' = "wait"
     /\ WaitOver => /\ \/ actual_temperature = WaitTarget
                       \/ elapsed >= timeout
                       \/ do_exit
                    /\ fpc' \in {"exited", "timed_out", "rep"}
                    /\ fpc' = "exited" <=> do_exit
                    /\ fpc' = "timed_out" <=> (~do_exit /\ actual_temperature # WaitTarget)
                    /\ fpc' = "rep" <=> (~do_exit /\ actual_temperature = WaitTarget)
                    /\ fpc' = "rep" => (rep' = 0 /\ target_temperature' = WaitTarget)
                    /\ fpc' # "rep" => target_temperature' = 20]_vars

\* the wait for the second temperature ended in the fatal timeout with a reading
\* one degree below the target
C13_Witness ==
  /\ fpc = "timed_out" /\ temp_i = 1 /\ ~do_exit
  /\ actual_temperature = target_temps[2] - 1
  /\ target_temperature = 20

\* the process has ended after experiment_loop connected to the controller and
\* set a target
SessionOver ==
  /\ target_temps # <<>> /\ target_temperature # -1
  /\ fpc \in {"done", "exited", "timed_out", "excursion"}

\* C14 as stated: when a temperature-controlled session has ended, the last
\* target temperature sent to the controller is 20
C14_AsStated == SessionOver => target_temperature = 20

\* the exits of experiment_loop itself do set the controller back to 20
C14_LoopExits == (SessionOver /\ fpc # "excursion") => target_temperature = 20

----------------------------------------------------------------------------
(* The emitted function *)

Emitted == kpc = "emitted"

\* the instructions of the emitted function
Listing == IF use_asmjit THEN function ELSE Decode(function, 1)

OpsOf(l) == [i \in 1..Len(l) |-> l[i].op]

RECURSIVE Times(_, _)
Times(seq, n) == IF n = 0 THEN <<>> ELSE seq \o Times(seq, n - 1)

\* prologue, epilogue and the labels of the assembler
Frame == {"endbr64", "push_rbp", "mov_rbp_rsp", "pop_rbp", "bind"}

BodyOps == SelectSeq(OpsOf(Listing), LAMBDA o : o \notin Frame)

NumAggs == Len(virt_aggs)

\* the instructions of one block
BlockLen(fence) == 3 + nop_count + (IF fence THEN 1 ELSE 0)

----------------------------------------------------------------------------
(* The default kernel *)

DefaultKernel == hammer_algorithm = "default" /\ kpc \in {"call", "loop", "ret"}

\* the accesses of kind op to the address a so far
AccessesTo(op, a) ==
  Cardinality({p \in 1..Len(accesses) : accesses[p].op = op /\ accesses[p].agg = a})

\* how often the address a stands in the list of aggressors
TimesListed(a) == Cardinality({k \in 1..NumAggs : virt_aggs[k] = a})

\* C16: in hammer_aggs_default every turn of the hammer_count turns reads each
\* aggressor once in list order and only then flushes each aggressor once in list
\* order; when it returns, each aggressor has been read and flushed exactly
\* hammer_count times, and with hammer_count = 0 or an empty list nothing has
\* been accessed.
C16_Default ==
  DefaultKernel =>
    /\ Len(accesses) = iter_i * 2 * NumAggs + iter_pos
    /\ iter_i <= ToNat(hammer_count)
    /\ \A p \in 1..Len(accesses) :
         LET q == (p - 1) % (2 * NumAggs)
         IN /\ accesses[p].op = (IF q < NumAggs THEN "read" ELSE "clflush")
            /\ accesses[p].agg = virt_aggs[(q % NumAggs) + 1]
    /\ kpc = "ret" =>
         /\ iter_i = ToNat(hammer_count) /\ iter_pos = 0
         /\ \A a \in AggAddrs :
              /\ AccessesTo("read", a) = ToNat(hammer_count) * TimesListed(a)
              /\ AccessesTo("clflush", a) = ToNat(hammer_count) * TimesListed(a)
         /\ (hammer_count = {} \/ virt_aggs = <<>>) => accesses = <<>>

\* two turns over two different aggressors: read, read, flush, flush, twice
C16_Witness ==
  /\ DefaultKernel /\ kpc = "ret"
  /\ ToNat(hammer_count) = 2 /\ NumAggs = 2 /\ virt_aggs[1] # virt_aggs[2]
  /\ [p \in 1..Len(accesses) |-> accesses[p].op]
       = <<"read", "read", "clflush", "clflush", "read", "read", "clflush", "clflush">>
  /\ accesses[2].agg = virt_aggs[2] /\ accesses[3].agg = virt_aggs[1]


----------------------------------------------------------------------------
(* The claims about the configuration *)

C17_Read == ReadConfig /\ cpc' = "verified"

\* C17 as stated: a verified test_max_rows below test_min_rows + 2*row_padding
\* has been raised to that value, and a value at or above it is unchanged.
C17_AsStated ==
  [][C17_Read =>
       LET floor == Add(config.test_min_rows, Shl(config.row_padding, 1))
       IN config'.test_max_rows =
            IF ULess(config.test_max_rows, floor) THEN floor ELSE config.test_max_rows]_vars

\* C17: a verified test_max_rows that was nonzero and below the floor
\* test_min_rows + (2*row_padding mod 2^32), taken mod 2^64, has been raised to
\* exactly that floor; a test_max_rows of 0 (no restriction) and a value at or
\* above the floor are unchanged.
C17_NonzeroRaised ==
  [][C17_Read =>
       LET floor == Add(config.test_min_rows,
                        Shl(config.row_padding, 1) \cap (0..(IntBits - 1)))
       IN config'.test_max_rows =
            IF config.test_max_rows # {} /\ ULess(config.test_max_rows, floor)
              THEN floor ELSE config.test_max_rows]_vars

\* a test_max_rows of at most MaxTestRows raised to the floor 3 + 2*3 = 9
C17_Witness ==
  /\ cpc = "verified"
  /\ config.test_min_rows = ToWord(3) /\ config.row_padding = ToWord(3)
  /\ config.test_max_rows = ToWord(9)


C18_Bits == config'.hammer_pattern

----------------------------------------------------------------------------
(* The claims about the fast and the debug sub-algorithm *)

\* the start of the window a *_test is about to call hammer() for: a row for
\* the non-contiguous finder, an offset into the pages of the bank for the
\* contiguous one
WindowStart ==
  IF fkind = "contiguous"
    THEN ToWord(cur_offset + (IF second THEN pages_per_row ELSE 0))
    ELSE IF second THEN Add(cur_row, {0}) ELSE cur_row

WindowBank ==
  IF fkind = "contiguous" THEN BankOrder[bank_i + 1] ELSE config_banks[bank_i + 1]

\* the *_test goes on to its next step, or to the next bank of the same offset
StepTaken ==
  /\ fpc' = "win"
  /\ IF fkind = "contiguous" THEN cur_offset' # cur_offset \/ bank_i' # bank_i
     ELSE fpc # "iter" /\ cur_row' # cur_row

\* the step is by pattern-size - 1 rows
StepIsSizeLessOne ==
  IF fkind = "contiguous"
    THEN cur_offset' \in {cur_offset, cur_offset + (hammer_rows - 1) * pages_per_row}
    ELSE cur_row' = Add(cur_row, ToWord(hammer_rows - 1))

\* hammer() has just been called for the second window of the step
SecondCalled == second /\ (fpc = "hammering" \/ win' # win)

\* the second window would reach past the pages the contiguous finder has of
\* the bank
SecondPastEnd ==
  /\ fkind = "contiguous" /\ second
  /\ cur_offset + pages_per_row + hammer_pages > Len(banks[WindowBank])

\* the windows of the run so far in which the row at address a is an aggressor
UsesOf(a) == {i \in 1..Len(win.pass) : \E k \in 1..Len(win.pass[i]) : win.pass[i][k] = a}

AtMostTwice ==
  win.outcome # "none" =>
    \A i \in 1..Len(win.pass) : \A k \in 1..Len(win.pass[i]) :
      Cardinality(UsesOf(win.pass[i][k])) <= 2

StepIsSize ==
  IF fkind = "contiguous"
    THEN cur_offset' = cur_offset + hammer_rows * pages_per_row
    ELSE cur_row' = Add(cur_row, ToWord(hammer_rows))

\* the contiguous debug_test is in its loop and config.banks leaves out bank 0
NoPagesOfBank0 ==
  /\ fkind = "contiguous" /\ fpc = "win"
  /\ cur_offset <= pages_per_bank - hammer_pages
  /\ \A k \in 1..Len(config_banks) : config_banks[k] # 0

----------------------------------------------------------------------------
(* The claims of the third part *)

\* C21 as stated: with one row (column) mask the single-mask branch of phys(),
\* get_dram_row and get_dram_col gives what the loop gives for that list, for
\* every value.
C21_AsStated ==
  dpc = "out" /\ dmode = "paths" =>
    dout.placed = dout.placed_loop /\ dout.got = dout.got_loop

\* C21: with one row (column) mask, get_dram_row (get_dram_col) gives what the
\* loop gives for every address, and phys() places a row (column) as the loop
\* does for every value that fits the width of the mask; a value with a bit
\* past the width is shifted whole by the single-mask branch, while the loop
\* drops that bit and its assert fails.
C21_SinglePath ==
  dpc = "out" /\ dmode = "paths" =>
    LET mask == layout.row_masks[1]
        fits == \A b \in din.val : b < count_one_bits(mask)
    IN /\ dout.got = dout.got_loop
       /\ fits => dout.placed = dout.placed_loop /\ dout.assert_holds
       /\ ~fits => ~dout.assert_holds
                   /\ dout.placed_loop \subseteq mask
                   /\ dout.placed = Shl(din.val, Min(mask))

\* a value of two bits placed into a mask that does not begin at bit 0
C21_Witness ==
  /\ dpc = "out" /\ dmode = "paths" /\ layout.row_masks = <<{1, 2}>>
  /\ din.val = {0, 1} /\ dout.placed = {1, 2} /\ dout.placed_loop = {1, 2}


\* the positions of the steps of kind s in the current call of hammer()
StepsAt(s) == {n \in 1..Len(steps) : steps[n].step = s}

Records == StepsAt("insert_test") \cup StepsAt("insert_bitflip")

CallStarted == hpc \in {"loop", "ret", "exited"}

CallOver == hpc \in {"ret", "exited"}

BeginsOnce ==
  CallStarted =>
    /\ StepsAt("begin_transaction") = {1}
    /\ \A n \in Records : n > 1

\* C22 as stated: every call of hammer() begins one transaction before the
\* first pair and commits it once after the last pair, all records of the call
\* in between.
C22_AsStated ==
  /\ BeginsOnce
  /\ CallOver => /\ StepsAt("commit") = {Len(steps)}
                 /\ \A n \in Records : n < Len(steps)

\* C22: every call of hammer() begins one transaction before the first pair; a
\* call that returns commits it once after the last pair, all records of the
\* call in between; a call that ends the process on a temperature outside the
\* interval never commits, and the records of its earlier pairs stay in the
\* open transaction.
C22_Transaction ==
  /\ BeginsOnce
  /\ hpc = "loop" => StepsAt("commit") = {}
  /\ hpc = "ret" => /\ StepsAt("commit") = {Len(steps)}
                    /\ \A n \in Records : n < Len(steps)
                    /\ Cardinality(StepsAt("insert_test")) = Len(aggressor_init)
  /\ hpc = "exited" => /\ StepsAt("commit") = {}
                       /\ steps[Len(steps)].step = "hammer_aggs"
                       /\ Cardinality(StepsAt("insert_test")) = pair_i

\* a call of two pairs that found a flip in the first pair and ended on the
\* temperature in the second
C22_Witness ==
  /\ hpc = "exited" /\ pair_i = 1
  /\ StepsAt("insert_test") # {} /\ StepsAt("insert_bitflip") # {}


\* the position of the step s of the pair i, 0 if the pair has not done it
StepOf(s, i) ==
  LET at == {n \in 1..Len(steps) : steps[n].step = s /\ steps[n].pair = i}
  IN IF at = {} THEN 0 ELSE Min(at)

TimesDone(s, i) ==
  Cardinality({n \in 1..Len(steps) : steps[n].step = s /\ steps[n].pair = i})

VictimPages == UNION {RowPages(virt_victims[v]) : v \in 1..Len(virt_victims)}

AggressorPages == UNION {RowPages(virt_aggs[a]) : a \in 1..Len(virt_aggs)}

\* C23: a call of hammer_and_check fills the victim rows, then fills the
\* aggressor rows, then invokes the hammer variant once, then scans the victim
\* rows; when no aggressor row shares memory with a victim row, the victim rows
\* hold at the scan what the fill has written, but for the words that hammering
\* has disturbed.
C23_Order ==
  \A i \in 1..pair_i :
    /\ \A s \in {"fill_victims", "fill_aggressors", "hammer_aggs", "scan"} :
         TimesDone(s, i) = 1
    /\ StepOf("fill_victims", i) < StepOf("fill_aggressors", i)
    /\ StepOf("fill_aggressors", i) < StepOf("hammer_aggs", i)
    /\ StepOf("hammer_aggs", i) < StepOf("scan", i)
    /\ i = pair_i /\ hpc # "exited" /\ VictimPages \cap AggressorPages = {} =>
         \A p \in VictimPages :
            /\ ram[p].fill = victim_init[i]
            /\ differed[i] <=> \E q \in VictimPages : ram[q].diff # <<>>

\* the second call of hammer_and_check of a call of hammer(), on two victim
\* rows around an aggressor row, has found a disturbed victim word
C23_Witness ==
  /\ pair_i = 2 /\ hpc = "loop" /\ Len(virt_victims) = 2 /\ Len(virt_aggs) = 1
  /\ differed[2] /\ StepOf("scan", 2) > StepOf("hammer_aggs", 2)


\* the pages of the bank that the region owns between first_page and last_page
OwnedOfBank(bank) ==
  {p \in first_page..last_page : contains(p) /\ DramOfPage(p).bank = ToWord(bank)}

\* C24: the row bounds find_flips gets for a bank are the row of the lowest
\* and the row of the highest owned page of the bank in [first_page,
\* last_page] (no first or last row is configured).
C24_AsStated ==
  [][fkind = "noncontiguous" /\ fpc = "iter" /\ fpc' = "win" =>
       LET owned == OwnedOfBank(config_banks[bank_i + 1])
       IN owned # {} =>
            /\ cur_row' = DramOfPage(Min(owned)).row
            /\ cur_last_row' = DramOfPage(Max(owned)).row]_vars

(* C25: whenever determine_page_range succeeds, first_page <= last_page and  *)
(* every page of [first_page, last_page] is in the page map; with no first   *)
(* row configured, first_page lies in the row after the row of the first     *)
(* page of the run find_run found, and the pages of that run are consecutive *)
(* owned pages.                                                              *)
RunFound == dout.run

C25_AsStated ==
  fpc = "ranged" =>
    /\ first_page <= last_page
    /\ \A p \in first_page..last_page : contains(p)
    /\ test_first_row = 0 =>
         /\ DramOfPage(first_page).row = Add(DramOfPage(RunFound.first_page).row, {0})
         /\ RunFound.first_page <= RunFound.last_page
         /\ \A p \in RunFound.first_page..RunFound.last_page : contains(p)

(* C26: no timeout thread sets do_exit during a repetition later than the    *)
(* one that started it, or during the wait loop of a later temperature: a    *)
(* thread that wakes up while a repetition runs is the thread of that        *)
(* repetition, so test_max_time has passed since the repetition started.     *)
InRepetition == fpc \in {"iter", "win", "hammering"}

\* the threads asleep that an earlier repetition started
OlderThreads == IF InRepetition THEN timers - 1 ELSE timers

C26_AsStated ==
  [][timers' < timers /\ (InRepetition \/ fpc = "wait") => OlderThreads = 0]_vars

(* C27: every window the non-contiguous default_test and fast_test pass to   *)
(* hammer() lies within the row bounds of its bank, first_row <=             *)
(* first_victim and last_victim <= last_row, and for a bank of fewer than    *)
(* hammer_rows rows they return without a call of hammer().                  *)
RowBoundsOf(bank) == get_row_bounds(bank, first_page, last_page)

InRowBounds(w) ==
  /\ ULeq(RowBoundsOf(w.bank).first_row, w.first)
  /\ ULeq(Add(w.first, ToWord(hammer_rows - 1)), RowBoundsOf(w.bank).last_row)

FewerRowsThanPattern(bank) ==
  ULess(Add(Sub(RowBoundsOf(bank).last_row, RowBoundsOf(bank).first_row), {0}),
        ToWord(hammer_rows))

C27_AsStated ==
  [][fkind = "noncontiguous" /\ iter_algorithm \in {"default", "fast"} =>
       /\ win' # win /\ win'.outcome # "none" => InRowBounds(win')
       /\ fpc = "win" /\ FewerRowsThanPattern(config_banks[bank_i + 1]) => win' = win]_vars

(* C28: every window the contiguous default_test, fast_test and debug_test   *)
(* pass to hammer() lies inside the page list of its bank, its last page     *)
(* before the end of banks[bank], and no *_test looks up a bank that banks   *)
(* has no entry for, whatever config.banks is.                               *)
InsidePageList(w) ==
  /\ w.bank \in DOMAIN banks
  /\ ToNat(w.first) + hammer_pages <= Len(banks[w.bank])

AbsentBankLookedUp == fpc = "win" /\ fpc' = "terminated"

C28_AsStated ==
  [][fkind = "contiguous" =>
       /\ win' # win /\ win'.outcome # "none" => InsidePageList(win')
       /\ ~AbsentBankLookedUp]_vars

(* C29: with config.aggressor_rows the length of the aggressor list, the     *)
(* function of the machinecode variant reads and flushes every aggressor of  *)
(* the list hammer_count times, as hammer_aggs_default does, whatever        *)
(* hammer_count is.                                                          *)
MachinecodeRan == hammer_algorithm = "machinecode" /\ kpc \in {"ret", "fault"}

C29_AsStated ==
  MachinecodeRan /\ aggressor_rows = NumAggs =>
    \A k \in 1..NumAggs : turns[k] = hammer_count

(* C30: in the function built without USE_ASMJIT the jnz targets the first   *)
(* byte after `mov rbx, imm32`, where the block of the first aggressor       *)
(* begins, for every aggressor list and every nop_count.                     *)
LoopBegin == Len(function_start) + imm32_size

JnzTarget ==
  LET d == Decode(function, 1)
  IN d[CHOOSE i \in 1..Len(d) : d[i].op = "jnz"].target

C30_AsStated == Emitted /\ ~use_asmjit => JnzTarget = ToWord(LoopBegin)
====
